---- MODULE Spec2Model ----
(***************************************************************************)
(* Model of the ai-agent service's conversation context management         *)
(* (ContextManager: token counting, budget truncation, history loading)    *)
(* and of the chat / history endpoints that drive it.                      *)
(*                                                                         *)
(* Text is modelled as a sequence of words; the tokenizer yields one token *)
(* per word.  A chat message (a Python dict) is a function from its keys   *)
(* to values.  A database table is a sequence of rows in insertion order.  *)
(***************************************************************************)
EXTENDS Integers, Sequences, FiniteSets, TLC

(***************************************************************************)
(* Bounds of the model.                                                    *)
(***************************************************************************)
\* longest message list handed to truncate_by_tokens
MaxLen == 3
\* largest max_tokens / token_budget tried
MaxBudget == 16
\* most pre-existing rows of the messages table when history is loaded
MaxRows == 2
\* most conversations created through POST /chat
MaxConvs == 2
\* a chat turn starts only while its two rows still fit in this many rows
MaxStored == 4

VARIABLES
    conversations,  \* table conversations: sequence of rows [id, user_id]
    messages,       \* table messages: sequence of rows
    tMessages,      \* truncate_by_tokens call: argument messages
    tMaxTokens,     \* truncate_by_tokens call: argument max_tokens
    tResult,        \* truncate_by_tokens call: returned list
    tpc,            \* truncate_by_tokens call: "ready" | "done"
    lArgs,          \* load_conversation_history call: arguments (or NoCall)
    lResult,        \* load_conversation_history call: outcome (or NoCall)
    token_budget,   \* AgentConfig.token_budget
    cpc,            \* request handler position: "idle" | "load" | "agent" | "save" | "done"
    req,            \* the HTTP request being handled (or NoCall)
    conversation,   \* chat: id of the conversation in use (0 before it is known)
    history,        \* chat: the loaded history
    truncated_history, \* chat: the history after truncation
    agent_input,    \* chat: the input list given to Runner.run
    response_text,  \* chat: agent_result.response_text
    response,       \* the HTTP response (or NoCall)
    clock,          \* task context: datetime.now(), in time units
    metadata,       \* task context: the message metadata dict
    tcCall,         \* task context: the call just made and its outcome (or NoCall)
    mcp_attempts,   \* chat: create_mcp_connection calls made for this request
    agent_failure,  \* chat: the failure of run_agent_with_context ("none" if none)
    rpc,            \* _request: "idle" | "attempt" | "sleep" | "done"
    attempt_number, \* _request: tenacity's attempt number
    attempts,       \* _request: outcomes of the attempts of this call
    backoff,        \* _request: seconds slept between the attempts
    rOutcome,       \* _request: what the call returned or raised (or NoCall)
    max_requests,   \* RateLimiter.max_requests
    window_minutes, \* RateLimiter.window_minutes
    records,        \* RateLimiter._records: user_id -> [attempts, window_start]
    utc_now,        \* rate limiter: datetime.now(UTC), in minutes
    rlCall,         \* rate limiter: the call just made and its outcome (or NoCall)
    checks,         \* rate limiter: the check_rate_limit calls made so far
    ms_tasks,       \* MemoryStore._tasks: the dict, as its items in insertion order
    next_id,        \* MemoryStore._next_id
    assigned,       \* MemoryStore: the ids add_task has returned, in call order
    msCall,         \* MemoryStore: the call just made and its result (or NoCall)
    task_rows,      \* table tasks: the rows, in insertion order
    task_seq,       \* table tasks: the last id the autoincrement gave out
    db_now,         \* table tasks: the database's now()
    tkCall,         \* tasks API: the call just made and its outcome (or NoCall)
    sessions,       \* table user_sessions: the rows
    auth_now,       \* refresh tokens: datetime.now(UTC), in days
    revoked,        \* refresh tokens: the tokens logged out or presented after their expiry
    rtCall,         \* refresh tokens: the request just handled and its response (or NoCall)
    service_auth_token,\* settings.SERVICE_AUTH_TOKEN
    user_api_keys,  \* table user_api_keys: the rows
    akCall          \* API keys: the request just handled and its outcome (or NoCall)

vars == <<conversations, messages, tMessages, tMaxTokens, tResult, tpc,
          lArgs, lResult, token_budget, cpc, req, conversation, history,
          truncated_history, agent_input, response_text, response,
          clock, metadata, tcCall, mcp_attempts, agent_failure,
          rpc, attempt_number, attempts, backoff, rOutcome,
          max_requests, window_minutes, records, utc_now, rlCall, checks,
          ms_tasks, next_id, assigned, msCall,
          task_rows, task_seq, db_now, tkCall,
          sessions, auth_now, revoked, rtCall,
          service_auth_token, user_api_keys, akCall>>

dbVars == <<conversations, messages>>
truncVars == <<tMessages, tMaxTokens, tResult, tpc>>
loadVars == <<lArgs, lResult>>
chatVars == <<token_budget, cpc, req, conversation, history, truncated_history,
              agent_input, response_text, response, mcp_attempts, agent_failure>>

ctxVars == <<clock, metadata, tcCall>>
retryVars == <<rpc, attempt_number, attempts, backoff, rOutcome>>
rlVars == <<max_requests, window_minutes, records, utc_now, rlCall, checks>>
msVars == <<ms_tasks, next_id, assigned, msCall>>
repoVars == <<task_rows, task_seq, db_now, tkCall>>
authVars == <<sessions, auth_now, revoked, rtCall>>
keyVars == <<service_auth_token, user_api_keys, akCall>>
appVars == <<msVars, repoVars, authVars, keyVars>>
coreVars == <<dbVars, truncVars, loadVars, chatVars>>
extVars == <<ctxVars, retryVars, rlVars, appVars>>
baseVars == <<coreVars, ctxVars, retryVars, rlVars>>
keyRest == <<baseVars, msVars, repoVars, authVars>>
authRest == <<baseVars, msVars, repoVars, keyVars>>
repoRest == <<baseVars, msVars, authVars, keyVars>>
msRest == <<baseVars, repoVars, authVars, keyVars>>

NoCall == [kind |-> "none"]

\* the task-context functions have not been called and nothing is stored
CtxIdle ==
    /\ clock = 0
    /\ metadata = <<>>
    /\ tcCall = NoCall

\* no _request call has been made
RetryIdle ==
    /\ rpc = "off"
    /\ attempt_number = 0
    /\ attempts = <<>>
    /\ backoff = <<>>
    /\ rOutcome = NoCall

\* no rate limiter has been constructed
RlIdle ==
    /\ max_requests = 0
    /\ window_minutes = 0
    /\ records = <<>>
    /\ utc_now = 0
    /\ rlCall = NoCall
    /\ checks = <<>>

\* no MemoryStore has been constructed
MsIdle ==
    /\ ms_tasks = <<>>
    /\ next_id = 0
    /\ assigned = <<>>
    /\ msCall = NoCall

\* the tasks table is empty and the tasks API has not been called
RepoIdle ==
    /\ task_rows = <<>>
    /\ task_seq = 0
    /\ db_now = 0
    /\ tkCall = NoCall

\* the user_sessions table is empty and no token has been presented
AuthIdle ==
    /\ sessions = <<>>
    /\ auth_now = 0
    /\ revoked = {}
    /\ rtCall = NoCall

\* no API key is stored and no request has been made
KeyIdle ==
    /\ service_auth_token = [type |-> "str", chars |-> ""]
    /\ user_api_keys = <<>>
    /\ akCall = NoCall

\* the task stores and the authentication services, at rest
AppIdle == MsIdle /\ RepoIdle /\ AuthIdle /\ KeyIdle

\* the variables of the conversation model, at rest
CoreIdle ==
    /\ conversations = <<>>
    /\ messages = <<>>
    /\ tMessages = <<>>
    /\ tMaxTokens = 0
    /\ tResult = <<>>
    /\ tpc = "idle"
    /\ lArgs = NoCall
    /\ lResult = NoCall
    /\ token_budget = 0
    /\ cpc = "off"
    /\ req = NoCall
    /\ conversation = 0
    /\ history = <<>>
    /\ truncated_history = <<>>
    /\ agent_input = <<>>
    /\ response_text = <<>>
    /\ response = NoCall
    /\ mcp_attempts = 0
    /\ agent_failure = "none"

\* the variables of the other components, at rest
ExtIdle == CtxIdle /\ RetryIdle /\ RlIdle /\ AppIdle

\* the conversation model and its helpers, at rest
BaseIdle == CoreIdle /\ CtxIdle /\ RetryIdle /\ RlIdle
KeyRestIdle == BaseIdle /\ MsIdle /\ RepoIdle /\ AuthIdle
AuthRestIdle == BaseIdle /\ MsIdle /\ RepoIdle /\ KeyIdle
RepoRestIdle == BaseIdle /\ MsIdle /\ AuthIdle /\ KeyIdle
MsRestIdle == BaseIdle /\ RepoIdle /\ AuthIdle /\ KeyIdle

(***************************************************************************)
(* Generic helpers.                                                        *)
(***************************************************************************)
RECURSIVE SumSeq(_)
SumSeq(s) == IF s = <<>> THEN 0 ELSE Head(s) + SumSeq(Tail(s))

RECURSIVE Flatten(_)
Flatten(ss) == IF ss = <<>> THEN <<>> ELSE Head(ss) \o Flatten(Tail(ss))

SeqsUpTo(S, n) == UNION {[1..k -> S] : k \in 0..n}

\* s[(Len(s)-k+1)..Len(s)]
Suffix(s, k) == SubSeq(s, Len(s) - k + 1, Len(s))

\* number of positions of s holding x
Occurrences(s, x) == Cardinality({i \in 1..Len(s) : s[i] = x})

(***************************************************************************)
(* Messages in agent format (dicts).                                       *)
(***************************************************************************)
Roles == {"system", "user", "assistant", "tool"}

\* dict.get("role"): the value, or None when the key is absent
get_role(m) == IF "role" \in DOMAIN m THEN m["role"] ELSE "None"

\* insertion order of the keys of an agent message
KeyOrder == <<"role", "content", "tool_calls">>

\* the words of one dict value
ValueWords(m, k) == IF k = "role" THEN <<m[k]>> ELSE m[k]

\* str(m): the words of the dict's printed form, key by key
str(m) ==
    Flatten([i \in 1..Len(KeyOrder) |->
                IF KeyOrder[i] \in DOMAIN m
                THEN <<KeyOrder[i]>> \o ValueWords(m, KeyOrder[i])
                ELSE <<>>])

\* ContextManager.count_tokens
count_tokens(text) == IF text = <<>> THEN 0 ELSE Len(text)

msg_tokens(m) == count_tokens(str(m))

IsSystem(m) == get_role(m) = "system"
NotSystem(m) == get_role(m) # "system"

\* sum(self.count_tokens(str(m)) for m in msgs)
TokenSum(msgs) == SumSeq([i \in 1..Len(msgs) |-> msg_tokens(msgs[i])])

(***************************************************************************)
(* ContextManager.truncate_by_tokens                                       *)
(***************************************************************************)
system_msgs(msgs) == SelectSeq(msgs, IsSystem)
other_msgs(msgs) == SelectSeq(msgs, NotSystem)

\* keep_loop iterating other_msgs without reversed(): oldest first
RECURSIVE keep_loop_oldest_first(_, _, _, _, _)
keep_loop_oldest_first(others, i, kept_msgs, current_tokens, available_tokens) ==
    IF i = 0 THEN kept_msgs
    ELSE LET j == Len(others) - i + 1
         IN  IF current_tokens + msg_tokens(others[j]) <= available_tokens
             THEN keep_loop_oldest_first(others, i - 1, kept_msgs \o <<others[j]>>,
                        current_tokens + msg_tokens(others[j]), available_tokens)
             ELSE kept_msgs

\* keep_loop with "continue" in place of "break": a message that does not
\* fit is skipped and older ones are still tried
RECURSIVE keep_loop_continue(_, _, _, _, _)
keep_loop_continue(others, i, kept_msgs, current_tokens, available_tokens) ==
    IF i = 0 THEN kept_msgs
    ELSE IF current_tokens + msg_tokens(others[i]) <= available_tokens
         THEN keep_loop_continue(others, i - 1, <<others[i]>> \o kept_msgs,
                        current_tokens + msg_tokens(others[i]), available_tokens)
         ELSE keep_loop_continue(others, i - 1, kept_msgs, current_tokens,
                        available_tokens)

\* keep_loop with "<" in place of "<=" in the fit test
RECURSIVE keep_loop_strict(_, _, _, _, _)
keep_loop_strict(others, i, kept_msgs, current_tokens, available_tokens) ==
    IF i = 0 THEN kept_msgs
    ELSE IF current_tokens + msg_tokens(others[i]) < available_tokens
         THEN keep_loop_strict(others, i - 1, <<others[i]>> \o kept_msgs,
                        current_tokens + msg_tokens(others[i]), available_tokens)
         ELSE kept_msgs

\* the loop "for msg in reversed(other_msgs)": i is the position still to
\* visit, kept_msgs and current_tokens the loop's variables
RECURSIVE keep_loop(_, _, _, _, _)
keep_loop(others, i, kept_msgs, current_tokens, available_tokens) ==
    IF i = 0 THEN kept_msgs
    ELSE IF current_tokens + msg_tokens(others[i]) <= available_tokens
         THEN keep_loop(others, i - 1, <<others[i]>> \o kept_msgs,
                        current_tokens + msg_tokens(others[i]), available_tokens)
         ELSE kept_msgs

\* truncate_by_tokens returning kept_msgs + system_msgs
truncate_by_tokens_kept_first(msgs, max_tokens) ==
    LET system_tokens == TokenSum(system_msgs(msgs))
        available_tokens == max_tokens - system_tokens
    IN  IF available_tokens <= 0
        THEN system_msgs(msgs)
        ELSE keep_loop(other_msgs(msgs), Len(other_msgs(msgs)), <<>>, 0,
                       available_tokens)
               \o system_msgs(msgs)

\* truncate_by_tokens that does not charge the system messages to the budget
truncate_by_tokens_full_budget(msgs, max_tokens) ==
    LET available_tokens == max_tokens
    IN  IF available_tokens <= 0
        THEN system_msgs(msgs)
        ELSE system_msgs(msgs)
               \o keep_loop(other_msgs(msgs), Len(other_msgs(msgs)), <<>>, 0,
                            available_tokens)

\* truncate_by_tokens that returns nothing when the system messages
\* exhaust the budget
truncate_by_tokens_drop_all(msgs, max_tokens) ==
    LET system_tokens == TokenSum(system_msgs(msgs))
        available_tokens == max_tokens - system_tokens
    IN  IF available_tokens <= 0
        THEN <<>>
        ELSE system_msgs(msgs)
               \o keep_loop(other_msgs(msgs), Len(other_msgs(msgs)), <<>>, 0,
                            available_tokens)

truncate_by_tokens(msgs, max_tokens) ==
    LET system_tokens == TokenSum(system_msgs(msgs))
        available_tokens == max_tokens - system_tokens
    IN  IF available_tokens <= 0
        THEN system_msgs(msgs)
        ELSE system_msgs(msgs)
               \o keep_loop(other_msgs(msgs), Len(other_msgs(msgs)), <<>>, 0,
                            available_tokens)

(***************************************************************************)
(* ContextManager._contains_task_references.  Content is a sequence of     *)
(* words (maximal runs without whitespace); each regular expression is     *)
(* matched against neighbouring words of the lower-cased content.          *)
(***************************************************************************)
\* str.lower() of one word
lower(w) ==
    CASE w = "Task" -> "task"
      [] w = "Tasks" -> "tasks"
      [] w = "(ID" -> "(id"
      [] w = "ID" -> "id"
      [] w = "ID:" -> "id:"
      [] w = "Found" -> "found"
      [] w = "Priority:" -> "priority:"
      [] w = "High" -> "high"
      [] OTHER -> w

content_lower(content) == [i \in 1..Len(content) |-> lower(content[i])]

\* words made of digits only, and words that begin with a digit
DigitWords == {"2", "7"}
DigitLedWords == DigitWords \cup {"2)", "7)"}
\* words that begin with "task"
TaskLedWords == {"task", "tasks"}

\* some i has c[i+k-1] in classes[k] for every k
MatchesAt(c, classes) ==
    \E i \in 1..(Len(c) - Len(classes) + 1) :
        \A k \in 1..Len(classes) : c[i + k - 1] \in classes[k]

\* r'\btask\s+\d+'
pattern_task_number(c) == MatchesAt(c, <<{"task"}, DigitLedWords>>)
\* r'\(id\s*\d+\)'
pattern_paren_id(c) == MatchesAt(c, <<{"(id"}, {"2)", "7)"}>>)
\* r'\bid\s*[:=]?\s*\d+'
pattern_id_number(c) == MatchesAt(c, <<{"id", "id:", "id=", "(id"}, DigitLedWords>>)
\* r'found\s+\d+\s+task'
pattern_found_tasks(c) == MatchesAt(c, <<{"found"}, DigitWords, TaskLedWords>>)
\* r'have\s+\d+\s+task'
pattern_have_tasks(c) == MatchesAt(c, <<{"have"}, DigitWords, TaskLedWords>>)
\* r'i\s+see\s+\d+\s+task'
pattern_i_see_tasks(c) == MatchesAt(c, <<{"i"}, {"see"}, DigitWords, TaskLedWords>>)
\* r'there\s+(is|are)\s+\d+\s+task'
pattern_there_are_tasks(c) ==
    MatchesAt(c, <<{"there"}, {"is", "are"}, DigitWords, TaskLedWords>>)
\* r'description:\s*"'
pattern_description(c) == MatchesAt(c, <<{"description:"}, {"\"buy", "\"call"}>>)
\* r'priority:\s*(high|medium|low|urgent)'
pattern_priority(c) ==
    MatchesAt(c, <<{"priority:"}, {"high", "medium", "low", "urgent"}>>)

contains_task_references(content) ==
    LET c == content_lower(content)
    IN  \/ pattern_task_number(c)
        \/ pattern_paren_id(c)
        \/ pattern_id_number(c)
        \/ pattern_found_tasks(c)
        \/ pattern_have_tasks(c)
        \/ pattern_i_see_tasks(c)
        \/ pattern_there_are_tasks(c)
        \/ pattern_description(c)
        \/ pattern_priority(c)

(***************************************************************************)
(* ContextManager.load_conversation_history                                *)
(***************************************************************************)
\* message_metadata None (or empty): the dict with no key
NoMeta == <<>>

\* select(Conversation).where(Conversation.id == conversation_id)
\*   .scalar_one_or_none(): the set holds the row, or is empty
conversation_by_id(convs, conversation_id) ==
    {convs[i] : i \in {j \in 1..Len(convs) : convs[j].id = conversation_id}}

\* select(Message).where(Message.conversation_id == conversation_id)
messages_of(msgs, conversation_id) ==
    {msgs[i] : i \in {j \in 1..Len(msgs) : msgs[j].conversation_id = conversation_id}}

\* .order_by(Message.created_at): the rows, earliest first
RECURSIVE order_by_created_at(_)
order_by_created_at(rows) ==
    IF rows = {} THEN <<>>
    ELSE LET first == CHOOSE r \in rows :
                          \A q \in rows : r.created_at <= q.created_at
         IN  <<first>> \o order_by_created_at(rows \ {first})

\* the rows in table order, with no order_by
RECURSIVE in_table_order(_)
in_table_order(rows) ==
    IF rows = {} THEN <<>>
    ELSE LET first == CHOOSE r \in rows : \A q \in rows : r.id <= q.id
         IN  <<first>> \o in_table_order(rows \ {first})

\* the dict built from one row: role and content, updated with the metadata
agent_msg(row) ==
    LET base == [role |-> row.role, content |-> row.content]
    IN  IF row.message_metadata # NoMeta
        THEN row.message_metadata @@ base
        ELSE base

\* the test of the loop that skips ("continue") a row, ignoring the role
is_removed_any_role(row, sanitize_task_refs) ==
    sanitize_task_refs /\ contains_task_references(row.content)

\* the test of the loop that skips ("continue") a row
is_removed(row, sanitize_task_refs) ==
    /\ sanitize_task_refs
    /\ row.role = "assistant"
    /\ contains_task_references(row.content)

\* the loop "for msg in db_messages"
RECURSIVE convert_loop(_, _)
convert_loop(db_messages, sanitize_task_refs) ==
    IF db_messages = <<>> THEN <<>>
    ELSE IF is_removed(Head(db_messages), sanitize_task_refs)
         THEN convert_loop(Tail(db_messages), sanitize_task_refs)
         ELSE <<agent_msg(Head(db_messages))>>
                \o convert_loop(Tail(db_messages), sanitize_task_refs)

Raised(error) == [kind |-> error, value |-> <<>>]
Returned(v) == [kind |-> "ok", value |-> v]

\* load_conversation_history without the ownership test
load_conversation_history_any_user(convs, msgs, conversation_id, user_id, sanitize_task_refs) ==
    LET found == conversation_by_id(convs, conversation_id)
    IN  IF found = {} THEN Raised("ValueError")
        ELSE Returned(convert_loop(
                        order_by_created_at(messages_of(msgs, conversation_id)),
                        sanitize_task_refs))

\* load_conversation_history without order_by
load_conversation_history_unordered(convs, msgs, conversation_id, user_id, sanitize_task_refs) ==
    LET found == conversation_by_id(convs, conversation_id)
    IN  IF found = {} THEN Raised("ValueError")
        ELSE IF (CHOOSE c \in found : TRUE).user_id # user_id
             THEN Raised("PermissionError")
             ELSE Returned(convert_loop(
                        in_table_order(messages_of(msgs, conversation_id)),
                        sanitize_task_refs))

load_conversation_history(convs, msgs, conversation_id, user_id, sanitize_task_refs) ==
    LET found == conversation_by_id(convs, conversation_id)
    IN  IF found = {} THEN Raised("ValueError")
        ELSE IF (CHOOSE c \in found : TRUE).user_id # user_id
             THEN Raised("PermissionError")
             ELSE Returned(convert_loop(
                        order_by_created_at(messages_of(msgs, conversation_id)),
                        sanitize_task_refs))

(***************************************************************************)
(* Inputs of the truncation calls.                                         *)
(***************************************************************************)
TruncRoles == {"system", "user", "assistant"}
TruncContents == {<<>>, <<"hello", "there">>}
TruncMessages == {[role |-> r, content |-> c] : r \in TruncRoles, c \in TruncContents}
Budgets == 0..MaxBudget

(***************************************************************************)
(* Specification of the truncation calls: the arguments are drawn in the   *)
(* initial state, TruncateCall applies the function.                       *)
(***************************************************************************)
InitTrunc ==
    /\ conversations = <<>>
    /\ messages = <<>>
    /\ tMessages \in SeqsUpTo(TruncMessages, MaxLen)
    /\ tMaxTokens \in Budgets
    /\ tResult = <<>>
    /\ tpc = "ready"
    /\ lArgs = NoCall
    /\ lResult = NoCall
    /\ token_budget = 0
    /\ cpc = "off"
    /\ req = NoCall
    /\ conversation = 0
    /\ history = <<>>
    /\ truncated_history = <<>>
    /\ agent_input = <<>>
    /\ response_text = <<>>
    /\ response = NoCall
    /\ mcp_attempts = 0
    /\ agent_failure = "none"
    /\ ExtIdle

TruncateCall ==
    /\ tpc = "ready"
    /\ tResult' = truncate_by_tokens(tMessages, tMaxTokens)
    /\ tpc' = "done"
    /\ UNCHANGED <<tMessages, tMaxTokens>>
    /\ UNCHANGED dbVars
    /\ UNCHANGED loadVars
    /\ UNCHANGED chatVars
    /\ UNCHANGED extVars

NextTrunc == TruncateCall

SpecTrunc == InitTrunc /\ [][NextTrunc]_vars

(***************************************************************************)
(* Specification of the history loading calls: the tables are drawn in the *)
(* initial state, LoadCall applies load_conversation_history.              *)
(***************************************************************************)
Users == {"u1", "u2"}

ToolMeta == [tool_calls |-> <<"list_tasks">>]

\* message_metadata is a JSON column: a stored dict may use any key, "role"
\* and "content" included
RoleMeta == [role |-> "system"]

ContentMeta == [content |-> <<"Task", "7", "done">>]

RowContents == {<<"hello">>, <<"Task", "7", "done">>}

\* role and metadata of a stored row: tool calls are stored with
\* assistant messages
RowKinds ==
    {[role |-> r, message_metadata |-> NoMeta] : r \in Roles}
        \cup {[role |-> "assistant", message_metadata |-> ToolMeta]}
        \cup {[role |-> "user", message_metadata |-> RoleMeta]}
        \cup {[role |-> "assistant", message_metadata |-> ContentMeta]}

\* what a row holds besides its id and created_at
RowPayloads ==
    {[conversation_id |-> c, role |-> k.role, content |-> t,
      message_metadata |-> k.message_metadata] :
        c \in 1..2, k \in RowKinds, t \in RowContents}

\* the table holding the payloads, row i created at time at[i]
MakeRows(payloads, at) ==
    [i \in 1..Len(payloads) |->
        [id |-> i,
         conversation_id |-> payloads[i].conversation_id,
         role |-> payloads[i].role,
         content |-> payloads[i].content,
         message_metadata |-> payloads[i].message_metadata,
         created_at |-> at[i]]]

TwoConversations ==
    <<[id |-> 1, user_id |-> "u1"], [id |-> 2, user_id |-> "u2"]>>

InitLoad ==
    /\ conversations = TwoConversations
    /\ \E payloads \in SeqsUpTo(RowPayloads, MaxRows) :
         \E at \in Permutations(1..Len(payloads)) :
            messages = MakeRows(payloads, at)
    /\ tMessages = <<>>
    /\ tMaxTokens = 0
    /\ tResult = <<>>
    /\ tpc = "idle"
    /\ lArgs = NoCall
    /\ lResult = NoCall
    /\ token_budget = 0
    /\ cpc = "off"
    /\ req = NoCall
    /\ conversation = 0
    /\ history = <<>>
    /\ truncated_history = <<>>
    /\ agent_input = <<>>
    /\ response_text = <<>>
    /\ response = NoCall
    /\ mcp_attempts = 0
    /\ agent_failure = "none"
    /\ ExtIdle

LoadCall ==
    /\ lArgs = NoCall
    /\ \E conversation_id \in 1..(Len(conversations) + 1), user_id \in Users,
          sanitize_task_refs \in BOOLEAN :
         /\ lArgs' = [kind |-> "call", conversation_id |-> conversation_id,
                      user_id |-> user_id,
                      sanitize_task_refs |-> sanitize_task_refs]
         /\ lResult' = load_conversation_history(conversations, messages,
                          conversation_id, user_id, sanitize_task_refs)
    /\ UNCHANGED dbVars
    /\ UNCHANGED truncVars
    /\ UNCHANGED chatVars
    /\ UNCHANGED extVars

NextLoad == LoadCall

SpecLoad == InitLoad /\ [][NextLoad]_vars

(***************************************************************************)
(* The HTTP layer of the ai-agent: POST /chat (api/chat.py) and            *)
(* GET /conversations/{conversation_id} (api/history.py).  One request is  *)
(* handled at a time; the chat handler is cut at its awaits: conversation  *)
(* lookup or creation, history loading and truncation, the agent run, and  *)
(* the commit of the two new rows.                                         *)
(***************************************************************************)
UserTexts == {<<"hello">>, <<"show", "tasks">>}
AgentTexts == {<<"ok">>, <<"found", "2", "tasks">>}

\* what ApiKeyRetrievalService.get_user_api_key does
KeyOutcomes == {"ok", "none", "service_auth_error", "error"}
\* what the MCP connection and Runner.run do: fail, or answer with a text
AgentFailures == {"mcp_error", "run_error"}

\* config.token_budget values tried (gt=0)
TokenBudgets == {b \in 1..MaxBudget : b % 4 = 0}

HTTPException(status_code, detail) ==
    [status |-> status_code, detail |-> detail, body |-> <<>>]
Ok200(body) == [status |-> 200, detail |-> "", body |-> body]

NotFoundDetail == "Conversation not found or you don't have access"
UnavailableDetail == "AI service temporarily unavailable. Please try again."

\* select(Conversation).where(Conversation.id == id) with no owner test
find_conversation_any_user(convs, conversation_id, user_id) ==
    {convs[i] : i \in {j \in 1..Len(convs) : convs[j].id = conversation_id}}

\* select(Conversation).where(Conversation.id == id,
\*   Conversation.user_id == user_id).scalar_one_or_none()
find_conversation(convs, conversation_id, user_id) ==
    {convs[i] : i \in {j \in 1..Len(convs) :
        convs[j].id = conversation_id /\ convs[j].user_id = user_id}}

\* a list of agent messages without the stale assistant messages
drop_stale(msgs) ==
    SelectSeq(msgs, LAMBDA m : ~(m.role = "assistant"
                                  /\ contains_task_references(m.content)))

\* chat steps "load" and "truncate" done in the other order: the whole
\* history is truncated, the stale messages are removed afterwards
chat_prepare_history_filter_last(convs, msgs, conversation_id, user_id, budget) ==
    LET loaded == load_conversation_history(convs, msgs, conversation_id,
                                            user_id, FALSE)
    IN  IF loaded.kind # "ok"
        THEN [kind |-> loaded.kind, history |-> <<>>, truncated_history |-> <<>>]
        ELSE [kind |-> "ok", history |-> loaded.value,
              truncated_history |->
                  drop_stale(truncate_by_tokens(loaded.value, budget))]

\* chat: load the history (sanitize_task_refs at its default, True), then
\* truncate it to config.token_budget
chat_prepare_history(convs, msgs, conversation_id, user_id, budget) ==
    LET loaded == load_conversation_history(convs, msgs, conversation_id,
                                            user_id, TRUE)
    IN  IF loaded.kind # "ok"
        THEN [kind |-> loaded.kind, history |-> <<>>, truncated_history |-> <<>>]
        ELSE [kind |-> "ok", history |-> loaded.value,
              truncated_history |-> truncate_by_tokens(loaded.value, budget)]

\* MessageConverter.db_messages_to_agent_batch
db_messages_to_agent_batch(db_messages) ==
    [i \in 1..Len(db_messages) |-> agent_msg(db_messages[i])]

\* run_agent_with_context: a list of dicts is used as it is, an empty list
\* goes through the converter
agent_messages(conversation_history) ==
    IF conversation_history # <<>>
    THEN conversation_history
    ELSE db_messages_to_agent_batch(conversation_history)

\* run_agent: messages = conversation_history.copy(); messages.append(...)
run_agent_input(conversation_history, user_message) ==
    Append(conversation_history, [role |-> "user", content |-> user_message])

\* datetime.utcnow() at an insert: later than every stored created_at
utcnow(msgs) == Len(msgs) + 1

NewMessage(msgs, conversation_id, role, content) ==
    [id |-> Len(msgs) + 1, conversation_id |-> conversation_id, role |-> role,
     content |-> content, message_metadata |-> NoMeta,
     created_at |-> utcnow(msgs)]

\* GET /conversations/{conversation_id}: the page of rows, newest first
\* with offset and limit applied, then reversed
page_of(rows, limit, offset) ==
    LET ascending == order_by_created_at(rows)
        n == Len(ascending)
        first == IF n - offset - limit + 1 < 1 THEN 1 ELSE n - offset - limit + 1
    IN  SubSeq(ascending, first, n - offset)

get_conversation(convs, msgs, conversation_id, user_id, limit, offset) ==
    IF find_conversation(convs, conversation_id, user_id) = {}
    THEN HTTPException(404, NotFoundDetail)
    ELSE LET rows == messages_of(msgs, conversation_id)
             total_count == Cardinality(rows)
             page == page_of(rows, limit, offset)
         IN  Ok200([id |-> conversation_id, messages |-> page,
                    has_more |-> (offset + Len(page)) < total_count,
                    total_count |-> total_count])

Init ==
    /\ conversations = <<>>
    /\ messages = <<>>
    /\ tMessages = <<>>
    /\ tMaxTokens = 0
    /\ tResult = <<>>
    /\ tpc = "idle"
    /\ lArgs = NoCall
    /\ lResult = NoCall
    /\ token_budget \in TokenBudgets
    /\ cpc = "idle"
    /\ req = NoCall
    /\ conversation = 0
    /\ history = <<>>
    /\ truncated_history = <<>>
    /\ agent_input = <<>>
    /\ response_text = <<>>
    /\ response = NoCall
    /\ mcp_attempts = 0
    /\ agent_failure = "none"
    /\ ExtIdle

\* chat.py lines 63-141: API key, then conversation lookup or creation
ChatBegin ==
    /\ cpc \in {"idle", "done"}
    /\ Len(messages) + 2 <= MaxStored
    /\ \E user_id \in Users, conversation_id \in 0..(Len(conversations) + 1),
          message \in UserTexts, key \in KeyOutcomes :
         LET found == find_conversation(conversations, conversation_id, user_id)
             fails == \/ key # "ok"
                      \/ (conversation_id # 0 /\ found = {})
             creates == key = "ok" /\ conversation_id = 0
         IN  /\ creates => Len(conversations) < MaxConvs
             /\ req' = [kind |-> "chat", user_id |-> user_id,
                        conversation_id |-> conversation_id,
                        message |-> message, key |-> key,
                        rows_before |-> Len(messages)]
             /\ conversations' =
                    IF creates
                    THEN Append(conversations,
                                [id |-> Len(conversations) + 1, user_id |-> user_id])
                    ELSE conversations
             /\ conversation' =
                    IF fails THEN 0
                    ELSE IF creates THEN Len(conversations) + 1
                    ELSE conversation_id
             /\ cpc' = IF fails THEN "done" ELSE "load"
             /\ response' =
                    IF key = "service_auth_error"
                    THEN HTTPException(500, "Internal service configuration error. Please contact support.")
                    ELSE IF key = "error"
                    THEN HTTPException(500, "Failed to retrieve API key")
                    ELSE IF key = "none"
                    THEN HTTPException(400, "Please configure your Gemini API key in Settings to use AI features.")
                    ELSE IF fails
                    THEN HTTPException(404, NotFoundDetail)
                    ELSE NoCall
    /\ history' = <<>>
    /\ truncated_history' = <<>>
    /\ agent_input' = <<>>
    /\ response_text' = <<>>
    /\ mcp_attempts' = 0
    /\ agent_failure' = "none"
    /\ UNCHANGED <<messages, token_budget>>
    /\ UNCHANGED truncVars
    /\ UNCHANGED loadVars
    /\ UNCHANGED extVars

\* chat.py lines 143-156: load the history and truncate it; an exception
\* (here: of the database) ends the request with 503
ChatLoadTruncate ==
    /\ cpc = "load"
    /\ \E db_ok \in BOOLEAN :
         LET prepared ==
                IF db_ok
                THEN chat_prepare_history(conversations, messages, conversation,
                                          req.user_id, token_budget)
                ELSE [kind |-> "SQLAlchemyError", history |-> <<>>,
                      truncated_history |-> <<>>]
         IN  /\ history' = prepared.history
             /\ truncated_history' = prepared.truncated_history
             /\ cpc' = IF prepared.kind = "ok" THEN "agent" ELSE "done"
             /\ response' = IF prepared.kind = "ok" THEN NoCall
                            ELSE HTTPException(503, UnavailableDetail)
    /\ UNCHANGED <<token_budget, req, conversation, agent_input, response_text,
                   mcp_attempts, agent_failure>>
    /\ UNCHANGED dbVars
    /\ UNCHANGED truncVars
    /\ UNCHANGED loadVars
    /\ UNCHANGED extVars

\* ChatRunAgent with the user message added and committed before the run
ChatRunAgent_user_saved_first ==
    /\ cpc = "agent"
    /\ \E outcome \in AgentFailures \cup AgentTexts :
         /\ agent_input' =
                IF outcome = "mcp_error" THEN <<>>
                ELSE run_agent_input(agent_messages(truncated_history), req.message)
         /\ response_text' = IF outcome \in AgentFailures THEN <<>> ELSE outcome
         /\ cpc' = IF outcome \in AgentFailures THEN "done" ELSE "save"
         /\ response' = IF outcome \in AgentFailures
                        THEN HTTPException(503, UnavailableDetail)
                        ELSE NoCall
         /\ agent_failure' = IF outcome \in AgentFailures THEN outcome ELSE "none"
    /\ mcp_attempts' = mcp_attempts + 1
    /\ messages' = Append(messages,
                       NewMessage(messages, conversation, "user", req.message))
    /\ UNCHANGED <<token_budget, req, conversation, history, truncated_history>>
    /\ UNCHANGED conversations
    /\ UNCHANGED truncVars
    /\ UNCHANGED loadVars
    /\ UNCHANGED extVars

\* chat.py lines 158-164 with AgentService.run_agent_with_context and
\* run_agent: the MCP connection is opened, the input list is built and
\* given to Runner.run
ChatRunAgent ==
    /\ cpc = "agent"
    /\ \E outcome \in AgentFailures \cup AgentTexts :
         /\ agent_input' =
                IF outcome = "mcp_error" THEN <<>>
                ELSE run_agent_input(agent_messages(truncated_history), req.message)
         /\ response_text' = IF outcome \in AgentFailures THEN <<>> ELSE outcome
         /\ cpc' = IF outcome \in AgentFailures THEN "done" ELSE "save"
         /\ response' = IF outcome \in AgentFailures
                        THEN HTTPException(503, UnavailableDetail)
                        ELSE NoCall
         /\ agent_failure' = IF outcome \in AgentFailures THEN outcome ELSE "none"
    \* agent_service.py line 292: one create_mcp_connection, in no loop
    /\ mcp_attempts' = mcp_attempts + 1
    /\ UNCHANGED <<token_budget, req, conversation, history, truncated_history>>
    /\ UNCHANGED dbVars
    /\ UNCHANGED truncVars
    /\ UNCHANGED loadVars
    /\ UNCHANGED extVars

\* chat.py lines 166-207: add the user row and the assistant row, commit
ChatSave ==
    /\ cpc = "save"
    /\ \E commit_ok \in BOOLEAN :
         LET user_message == NewMessage(messages, conversation, "user", req.message)
             with_user == Append(messages, user_message)
             assistant_message ==
                 NewMessage(with_user, conversation, "assistant", response_text)
         IN  /\ messages' = IF commit_ok THEN Append(with_user, assistant_message)
                            ELSE messages
             /\ response' =
                    IF commit_ok
                    THEN Ok200([conversation_id |-> conversation,
                                user_message |-> req.message,
                                assistant_message |-> response_text])
                    ELSE HTTPException(503, UnavailableDetail)
    /\ cpc' = "done"
    /\ UNCHANGED <<conversations, token_budget, req, conversation, history,
                   truncated_history, agent_input, response_text,
                   mcp_attempts, agent_failure>>
    /\ UNCHANGED truncVars
    /\ UNCHANGED loadVars
    /\ UNCHANGED extVars

\* history.py lines 77-150
GetConversation ==
    /\ cpc \in {"idle", "done"}
    /\ \E user_id \in Users, conversation_id \in 1..(Len(conversations) + 1),
          limit \in {1, 5}, offset \in 0..1 :
         /\ req' = [kind |-> "history", user_id |-> user_id,
                    conversation_id |-> conversation_id,
                    limit |-> limit, offset |-> offset]
         /\ response' = get_conversation(conversations, messages,
                            conversation_id, user_id, limit, offset)
    /\ cpc' = "done"
    /\ conversation' = 0
    /\ history' = <<>>
    /\ truncated_history' = <<>>
    /\ agent_input' = <<>>
    /\ response_text' = <<>>
    /\ mcp_attempts' = 0
    /\ agent_failure' = "none"
    /\ UNCHANGED token_budget
    /\ UNCHANGED dbVars
    /\ UNCHANGED truncVars
    /\ UNCHANGED loadVars
    /\ UNCHANGED extVars

Next ==
    \/ ChatBegin
    \/ ChatLoadTruncate
    \/ ChatRunAgent
    \/ ChatSave
    \/ GetConversation

Spec == Init /\ [][Next]_vars

(***************************************************************************)
(* Task list context (ContextManager.store_task_list_context,              *)
(* get_task_list_context, resolve_ordinal_reference).                      *)
(*                                                                         *)
(* In this part a Python str is the sequence of its characters, so that    *)
(* str(), int(), str.lower(), isoformat() and fromisoformat() are computed *)
(* on characters.  A dict is a function from its keys.  A value whose type *)
(* matters carries it: PyStr(chars), PyNone.                               *)
(***************************************************************************)
\* the clock advances in steps of 1/UnitsPerMinute minute
UnitsPerMinute == 2
\* the clock is followed for this many minutes
MaxMinutes == 6
\* longest task list stored
MaxTasks == 11
\* most keys of a positions dict that store_task_list_context did not write
MaxKeys == 2

DefaultExpirationMinutes == 5

PyStr(chars) == [type |-> "str", chars |-> chars]
PyNone == [type |-> "NoneType"]
ReturnedNone == [kind |-> "None", value |-> <<>>]

UpperChars == <<"A", "B", "C", "D", "E", "F", "G", "H", "I", "J", "K", "L", "M",
                "N", "O", "P", "Q", "R", "S", "T", "U", "V", "W", "X", "Y", "Z">>
LowerChars == <<"a", "b", "c", "d", "e", "f", "g", "h", "i", "j", "k", "l", "m",
                "n", "o", "p", "q", "r", "s", "t", "u", "v", "w", "x", "y", "z">>
DigitChars == <<"0", "1", "2", "3", "4", "5", "6", "7", "8", "9">>

IndexOf(chars, c) == CHOOSE i \in 1..Len(chars) : chars[i] = c
Has(chars, c) == \E i \in 1..Len(chars) : chars[i] = c

lower_char(c) == IF Has(UpperChars, c) THEN LowerChars[IndexOf(UpperChars, c)] ELSE c
upper_char(c) == IF Has(LowerChars, c) THEN UpperChars[IndexOf(LowerChars, c)] ELSE c

\* str.lower()
str_lower(s) == [i \in 1..Len(s) |-> lower_char(s[i])]
\* str.upper()
str_upper(s) == [i \in 1..Len(s) |-> upper_char(s[i])]
\* str.capitalize()
str_capitalize(s) == [i \in 1..Len(s) |-> IF i = 1 THEN upper_char(s[i]) ELSE lower_char(s[i])]

IsDigits(s) == s # <<>> /\ \A i \in 1..Len(s) : Has(DigitChars, s[i])

\* the number written by a sequence of decimal digits
RECURSIVE DigitsValue(_)
DigitsValue(s) ==
    IF s = <<>> THEN 0
    ELSE 10 * DigitsValue(SubSeq(s, 1, Len(s) - 1)) + (IndexOf(DigitChars, s[Len(s)]) - 1)

\* int(s) of a str made of letters and digits: ValueError unless all digits
int_of_str(s) == IF IsDigits(s) THEN Returned(DigitsValue(s)) ELSE Raised("ValueError")

\* str(n) of an int n >= 0
RECURSIVE str_of_int(_)
str_of_int(n) ==
    IF n < 10 THEN <<DigitChars[n + 1]>>
    ELSE str_of_int(n \div 10) \o <<DigitChars[(n % 10) + 1]>>

\* a number of seconds below 60 on two digits
TwoDigits(n) == IF n < 10 THEN <<"0">> \o str_of_int(n) ELSE str_of_int(n)

\* datetime.isoformat() of a naive datetime, reduced to minutes:seconds
isoformat(t) ==
    str_of_int(t \div UnitsPerMinute) \o <<":">>
        \o TwoDigits(((t % UnitsPerMinute) * 60) \div UnitsPerMinute)

\* the UTC offset that isoformat() appends to an aware datetime
UtcOffset == <<"+", "0", "0", ":", "0", "0">>

\* datetime.fromisoformat(v): TypeError unless v is a str, ValueError unless
\* the str has the format; the datetime is aware when an offset follows
fromisoformat(v) ==
    IF v.type # "str" THEN Raised("TypeError")
    ELSE LET s == v.chars
         IN  IF ~Has(s, ":") THEN Raised("ValueError")
             ELSE LET colon == IndexOf(s, ":")
                      minutes == SubSeq(s, 1, colon - 1)
                      rest == SubSeq(s, colon + 1, Len(s))
                      seconds == SubSeq(rest, 1, 2)
                      offset == SubSeq(rest, 3, Len(rest))
                  IN  IF /\ IsDigits(minutes)
                         /\ Len(rest) >= 2
                         /\ IsDigits(seconds)
                         /\ DigitsValue(seconds) < 60
                         /\ offset \in {<<>>, UtcOffset}
                      THEN Returned([units |-> DigitsValue(minutes) * UnitsPerMinute
                                        + (DigitsValue(seconds) * UnitsPerMinute) \div 60,
                                     aware |-> offset # <<>>])
                      ELSE Raised("ValueError")

\* timedelta(minutes=...) in time units
timedelta_minutes(minutes) == minutes * UnitsPerMinute

\* lines 295-320 with positions counted from 0: str(i)
store_task_list_context_zero_based(task_list, now) ==
    LET n == Len(task_list)
        positions == [key \in {str_of_int(i - 1) : i \in 1..n} |->
                        task_list[CHOOSE i \in 1..n : str_of_int(i - 1) = key].id]
    IN  [task_context |-> [positions |-> positions,
                           timestamp |-> PyStr(isoformat(now))]]

\* context_manager.py lines 295-320; now is datetime.now()
store_task_list_context(task_list, now) ==
    LET n == Len(task_list)
        positions == [key \in {str_of_int(i) : i \in 1..n} |->
                        task_list[CHOOSE i \in 1..n : str_of_int(i) = key].id]
    IN  [task_context |-> [positions |-> positions,
                           timestamp |-> PyStr(isoformat(now))]]

\* the comparison of line 357 on whole minutes
expired_whole_minutes(age, expiration_minutes) ==
    (age \div UnitsPerMinute) >= expiration_minutes

\* context_manager.py line 357: age > timedelta(minutes=expiration_minutes)
expired(age, expiration_minutes) == age > timedelta_minutes(expiration_minutes)

\* context_manager.py lines 322-361; now is datetime.now()
get_task_list_context(md, expiration_minutes, now) ==
    IF "task_context" \notin DOMAIN md THEN ReturnedNone
    ELSE LET context == md["task_context"]
         IN  \* context["timestamp"]: KeyError, caught
             IF "timestamp" \notin DOMAIN context THEN ReturnedNone
             ELSE LET timestamp == fromisoformat(context["timestamp"])
                  IN  \* ValueError is caught, TypeError is not
                      IF timestamp.kind = "ValueError" THEN ReturnedNone
                      ELSE IF timestamp.kind = "TypeError" THEN Raised("TypeError")
                      \* now - timestamp: naive minus aware is a TypeError
                      ELSE IF timestamp.value.aware THEN Raised("TypeError")
                      ELSE IF expired(now - timestamp.value.units, expiration_minutes)
                           THEN ReturnedNone
                           ELSE Returned(context)

\* dict.get(key)
dict_get(d, key) == IF key \in DOMAIN d THEN Returned(d[key]) ELSE ReturnedNone

Max(S) == CHOOSE x \in S : \A y \in S : y <= x

\* context_manager.py lines 396-407
OrdinalWords ==
    << <<"f", "i", "r", "s", "t">>, <<"s", "e", "c", "o", "n", "d">>,
       <<"t", "h", "i", "r", "d">>, <<"f", "o", "u", "r", "t", "h">>,
       <<"f", "i", "f", "t", "h">>, <<"s", "i", "x", "t", "h">>,
       <<"s", "e", "v", "e", "n", "t", "h">>, <<"e", "i", "g", "h", "t", "h">>,
       <<"n", "i", "n", "t", "h">>, <<"t", "e", "n", "t", "h">> >>
OrdinalPositions ==
    << <<"1">>, <<"2">>, <<"3">>, <<"4">>, <<"5">>, <<"6">>, <<"7">>, <<"8">>,
       <<"9">>, <<"1", "0">> >>
ordinal_map ==
    [w \in {OrdinalWords[i] : i \in 1..Len(OrdinalWords)} |->
        OrdinalPositions[IndexOf(OrdinalWords, w)]]

LastWord == <<"l", "a", "s", "t">>

\* the code of a character in the order of str comparison
CharCode(c) == IndexOf(DigitChars \o UpperChars \o LowerChars, c)

\* a < b as Python compares str
RECURSIVE StrLess(_, _)
StrLess(a, b) ==
    IF b = <<>> THEN FALSE
    ELSE IF a = <<>> THEN TRUE
    ELSE IF Head(a) = Head(b) THEN StrLess(Tail(a), Tail(b))
    ELSE CharCode(Head(a)) < CharCode(Head(b))

\* lines 413-414 with the keys compared as str: max(positions.keys())
last_key_as_str(positions) ==
    Returned(CHOOSE p \in DOMAIN positions :
                \A q \in DOMAIN positions : q = p \/ StrLess(q, p))

\* lines 413-414: str(max(int(p) for p in positions.keys()))
last_key(positions) ==
    IF \E p \in DOMAIN positions : int_of_str(p).kind # "ok"
    THEN Raised("ValueError")
    ELSE Returned(str_of_int(Max({int_of_str(p).value : p \in DOMAIN positions})))

\* lines 417-421 without the lower-casing of line 393
ordinal_position_case_sensitive(reference) ==
    IF reference \in DOMAIN ordinal_map THEN ordinal_map[reference] ELSE reference

\* lines 417-421
ordinal_position(reference) ==
    LET reference_lower == str_lower(reference)
    IN  IF reference_lower \in DOMAIN ordinal_map
        THEN ordinal_map[reference_lower]
        ELSE reference

\* context_manager.py lines 363-423
resolve_ordinal_reference(reference, context) ==
    IF "positions" \notin DOMAIN context THEN ReturnedNone
    ELSE LET positions == context["positions"]
         IN  IF str_lower(reference) = LastWord
             THEN IF DOMAIN positions = {} THEN ReturnedNone
                  ELSE LET max_position == last_key(positions)
                       IN  IF max_position.kind # "ok" THEN max_position
                           ELSE dict_get(positions, max_position.value)
             ELSE dict_get(positions, ordinal_position(reference))

(***************************************************************************)
(* Specification of the task context: a clock, one metadata dict, and the  *)
(* three functions called on it.  The metadata is either drawn in the      *)
(* initial state (any dict a message row may hold) or written by           *)
(* store_task_list_context.                                                *)
(***************************************************************************)
TaskIds == {10, 20}

\* every list of up to MaxKeys tasks, and the lists of up to MaxTasks tasks
\* with ids in ascending order
TaskLists ==
    {[i \in 1..Len(ids) |-> [id |-> ids[i]]] : ids \in SeqsUpTo(TaskIds, MaxKeys)}
        \cup {[i \in 1..n |-> [id |-> 100 + i]] : n \in 0..MaxTasks}

\* keys of a positions dict: canonical, zero-padded and non-numeric
KeyStrings == {<<"1">>, <<"2">>, <<"9">>, <<"1", "0">>, <<"0", "2">>, <<"x">>}

\* the positions dicts with up to MaxKeys of these keys, each key with a
\* task id of its own
PositionMaps ==
    {[p \in K |-> 10 * Len(p) + CharCode(Head(p))] :
        K \in {S \in SUBSET KeyStrings : Cardinality(S) <= MaxKeys}}

\* test_task_context.py line 85
TestPositions == (<<"1">> :> 10) @@ (<<"2">> :> 20) @@ (<<"3">> :> 30)

\* values found under "timestamp": naive ISO strings, a string that is no
\* ISO instant, an ISO string with a UTC offset, and None
TimestampValues ==
    {PyStr(isoformat(0)), PyStr(isoformat(UnitsPerMinute + 1)),
     PyStr(<<"s", "o", "o", "n">>), PyStr(isoformat(0) \o UtcOffset), PyNone}

InitContexts ==
    {[positions |-> p, timestamp |-> PyStr(isoformat(0))] : p \in PositionMaps}
        \cup {[positions |-> TestPositions, timestamp |-> ts] : ts \in TimestampValues}
        \cup {[positions |-> TestPositions], [timestamp |-> PyStr(isoformat(0))]}

InitMetadata ==
    {[some_other_key |-> PyStr(<<"v">>)]}
        \cup {[task_context |-> c] : c \in InitContexts}

ExpirationMinutes == {1, DefaultExpirationMinutes}

References ==
    UNION {{w, str_capitalize(w), str_upper(w)} :
             w \in {OrdinalWords[i] : i \in 1..Len(OrdinalWords)} \cup {LastWord}}
        \cup {str_of_int(k) : k \in 0..(MaxTasks + 1)}
        \cup {<<"0", "2">>, <<"x">>, <<>>}

InitContext ==
    /\ CoreIdle
    /\ RetryIdle
    /\ RlIdle
    /\ AppIdle
    /\ clock = 0
    /\ metadata \in InitMetadata
    /\ tcCall = NoCall

\* time passes between two calls
Tick ==
    /\ tcCall = NoCall
    /\ clock < MaxMinutes * UnitsPerMinute
    /\ clock' = clock + 1
    /\ UNCHANGED <<metadata, tcCall>>
    /\ UNCHANGED coreVars
    /\ UNCHANGED <<retryVars, rlVars>>
    /\ UNCHANGED appVars

StoreCall ==
    /\ tcCall = NoCall
    /\ \E task_list \in TaskLists :
         /\ metadata' = store_task_list_context(task_list, clock)
         /\ tcCall' = [op |-> "store", task_list |-> task_list]
    /\ UNCHANGED clock
    /\ UNCHANGED coreVars
    /\ UNCHANGED <<retryVars, rlVars>>
    /\ UNCHANGED appVars

GetCall ==
    /\ tcCall = NoCall
    /\ \E expiration_minutes \in ExpirationMinutes :
         tcCall' = [op |-> "get", expiration_minutes |-> expiration_minutes,
                    result |-> get_task_list_context(metadata, expiration_minutes, clock)]
    /\ UNCHANGED <<clock, metadata>>
    /\ UNCHANGED coreVars
    /\ UNCHANGED <<retryVars, rlVars>>
    /\ UNCHANGED appVars

ResolveCall ==
    /\ tcCall = NoCall
    /\ "task_context" \in DOMAIN metadata
    /\ \E reference \in References :
         tcCall' = [op |-> "resolve", reference |-> reference,
                    result |-> resolve_ordinal_reference(reference,
                                                         metadata["task_context"])]
    /\ UNCHANGED <<clock, metadata>>
    /\ UNCHANGED coreVars
    /\ UNCHANGED <<retryVars, rlVars>>
    /\ UNCHANGED appVars

\* the caller has taken the outcome of its call
ReturnCall ==
    /\ tcCall # NoCall
    /\ tcCall' = NoCall
    /\ UNCHANGED <<clock, metadata>>
    /\ UNCHANGED coreVars
    /\ UNCHANGED <<retryVars, rlVars>>
    /\ UNCHANGED appVars

NextContext ==
    \/ Tick
    \/ StoreCall
    \/ GetCall
    \/ ResolveCall
    \/ ReturnCall

SpecContext == InitContext /\ [][NextContext]_vars

(***************************************************************************)
(* BackendClient._request of the MCP server under its tenacity decorator   *)
(* (client.py lines 48-53): one call is a loop of attempts, each attempt   *)
(* an awaited httpx request that ends in a response or in an exception.    *)
(***************************************************************************)
\* stop_after_attempt(3)
StopAfterAttempt == 3
\* wait_exponential(multiplier=1, min=1, max=2)
WaitMultiplier == 1
WaitMin == 1
WaitMax == 2

\* the httpx exception classes tried, each with its base classes
HttpxBases ==
    [TimeoutException |-> {"TimeoutException", "TransportError"},
     ConnectTimeout |-> {"ConnectTimeout", "TimeoutException", "TransportError"},
     ReadTimeout |-> {"ReadTimeout", "TimeoutException", "TransportError"},
     ConnectError |-> {"ConnectError", "NetworkError", "TransportError"},
     ReadError |-> {"ReadError", "NetworkError", "TransportError"},
     RemoteProtocolError |-> {"RemoteProtocolError", "ProtocolError", "TransportError"}]

isinstance(class, classes) == HttpxBases[class] \cap classes # {}

StatusCodes == {200, 401, 404, 500}
HttpResponse(status_code) == [kind |-> "response", status_code |-> status_code]
HttpxError(class) == [kind |-> "exception", class |-> class]

\* what awaiting self.client.request(...) can end in
RequestOutcomes ==
    {HttpResponse(s) : s \in StatusCodes} \cup {HttpxError(c) : c \in DOMAIN HttpxBases}

\* a retry predicate that also retries on 5xx responses
retry_also_on_server_error(o) ==
    \/ o.kind = "exception" /\ isinstance(o.class, {"TimeoutException", "ConnectError"})
    \/ o.kind = "response" /\ o.status_code >= 500

\* client.py line 51: retry_if_exception_type((TimeoutException, ConnectError))
retry_if_exception_type(o) ==
    o.kind = "exception" /\ isinstance(o.class, {"TimeoutException", "ConnectError"})

\* a stop condition that allows one attempt more
stop_after_one_more(n) == n >= StopAfterAttempt + 1

\* client.py line 49: stop_after_attempt(3)
stop_after_attempt(n) == n >= StopAfterAttempt

Min2(a, b) == IF a <= b THEN a ELSE b
Max2(a, b) == IF a >= b THEN a ELSE b

\* client.py line 50: seconds to wait after attempt number n
wait_exponential(n) == Max2(WaitMin, Min2(WaitMultiplier * 2 ^ (n - 1), WaitMax))

InitRequest ==
    /\ CoreIdle
    /\ CtxIdle
    /\ RlIdle
    /\ AppIdle
    /\ rpc = "idle"
    /\ attempt_number = 0
    /\ attempts = <<>>
    /\ backoff = <<>>
    /\ rOutcome = NoCall

\* _request is called: tenacity begins with attempt number 1
RequestCall ==
    /\ rpc \in {"idle", "done"}
    /\ rpc' = "attempt"
    /\ attempt_number' = 1
    /\ attempts' = <<>>
    /\ backoff' = <<>>
    /\ rOutcome' = NoCall
    /\ UNCHANGED coreVars
    /\ UNCHANGED <<ctxVars, rlVars>>
    /\ UNCHANGED appVars

\* client.py lines 76-119, then tenacity's decision on the outcome: return
\* the response, let the exception out, or sleep before the next attempt
RequestAttempt ==
    /\ rpc = "attempt"
    /\ \E o \in RequestOutcomes :
         /\ attempts' = Append(attempts, o)
         /\ IF ~retry_if_exception_type(o) \/ stop_after_attempt(attempt_number)
            THEN /\ rpc' = "done"
                 /\ rOutcome' = o
                 /\ UNCHANGED backoff
            ELSE /\ rpc' = "sleep"
                 /\ backoff' = Append(backoff, wait_exponential(attempt_number))
                 /\ UNCHANGED rOutcome
    /\ UNCHANGED attempt_number
    /\ UNCHANGED coreVars
    /\ UNCHANGED <<ctxVars, rlVars>>
    /\ UNCHANGED appVars

\* the wait is over: next attempt
RequestWake ==
    /\ rpc = "sleep"
    /\ rpc' = "attempt"
    /\ attempt_number' = attempt_number + 1
    /\ UNCHANGED <<attempts, backoff, rOutcome>>
    /\ UNCHANGED coreVars
    /\ UNCHANGED <<ctxVars, rlVars>>
    /\ UNCHANGED appVars

NextRequest ==
    \/ RequestCall
    \/ RequestAttempt
    \/ RequestWake

SpecRequest == InitRequest /\ [][NextRequest]_vars

\* httpx ends every awaited request (self.timeout) and asyncio ends every
\* sleep, so an attempt or a wake-up that can happen does happen
FairSpecRequest ==
    SpecRequest /\ WF_vars(RequestAttempt) /\ WF_vars(RequestWake)

(***************************************************************************)
(* RateLimiter of the backend (services/rate_limiter.py).  Time is counted *)
(* in minutes; a call is synchronous and reads the clock once.             *)
(***************************************************************************)
\* largest max_requests a limiter is constructed with
MaxRequests == 2
\* largest window_minutes a limiter is constructed with
MaxWindow == 2
\* the clock is followed up to this minute
MaxNow == 4
\* most check_rate_limit calls made on one limiter
MaxChecks == 4

\* rate_limiter.py lines 11-15: RateLimitRecord() created at time now
RateLimitRecord(now) == [attempts |-> 0, window_start |-> now]

\* lines 56-57: get or create the record of this user
with_record(recs, user_id, now) ==
    IF user_id \in DOMAIN recs THEN recs
    ELSE [u \in DOMAIN recs \cup {user_id} |->
            IF u = user_id THEN RateLimitRecord(now) ELSE recs[u]]

\* check_rate_limit with a denied call starting the window again
check_rate_limit_denied_restarts(recs, max, window, user_id, now) ==
    LET created == with_record(recs, user_id, now)
        record == created[user_id]
        window_end == record.window_start + window
    IN  IF now < window_end
        THEN IF record.attempts >= max
             THEN [records |-> [created EXCEPT ![user_id].window_start = now],
                   is_allowed |-> FALSE, remaining |-> 0,
                   window_end |-> now + window]
             ELSE [records |-> [created EXCEPT ![user_id].attempts = @ + 1],
                   is_allowed |-> TRUE,
                   remaining |-> max - (record.attempts + 1),
                   window_end |-> window_end]
        ELSE [records |-> [created EXCEPT ![user_id] =
                              [attempts |-> 1, window_start |-> now]],
              is_allowed |-> TRUE, remaining |-> max - 1,
              window_end |-> now + window]

\* check_rate_limit with one attempts counter for all users
check_rate_limit_shared_counter(recs, max, window, user_id, now) ==
    LET created == with_record(recs, user_id, now)
        record == created[user_id]
        window_end == record.window_start + window
    IN  IF now < window_end
        THEN IF record.attempts >= max
             THEN [records |-> created, is_allowed |-> FALSE, remaining |-> 0,
                   window_end |-> window_end]
             ELSE [records |-> [u \in DOMAIN created |->
                                  [created[u] EXCEPT !.attempts = record.attempts + 1]],
                   is_allowed |-> TRUE,
                   remaining |-> max - (record.attempts + 1),
                   window_end |-> window_end]
        ELSE [records |-> [created EXCEPT ![user_id] =
                              [attempts |-> 1, window_start |-> now]],
              is_allowed |-> TRUE, remaining |-> max - 1,
              window_end |-> now + window]

\* rate_limiter.py lines 43-94: the records afterwards and the returned tuple
check_rate_limit(recs, max, window, user_id, now) ==
    LET created == with_record(recs, user_id, now)
        record == created[user_id]
        window_end == record.window_start + window
    IN  IF now < window_end
        THEN IF record.attempts >= max
             THEN [records |-> created, is_allowed |-> FALSE, remaining |-> 0,
                   window_end |-> window_end]
             ELSE [records |-> [created EXCEPT ![user_id].attempts = @ + 1],
                   is_allowed |-> TRUE,
                   remaining |-> max - (record.attempts + 1),
                   window_end |-> window_end]
        ELSE [records |-> [created EXCEPT ![user_id] =
                              [attempts |-> 1, window_start |-> now]],
              is_allowed |-> TRUE, remaining |-> max - 1,
              window_end |-> now + window]

\* rate_limiter.py lines 96-120
get_status(recs, max, window, user_id, now) ==
    IF user_id \notin DOMAIN recs
    THEN [current_attempts |-> 0, max_requests |-> max, window_end |-> now + window]
    ELSE LET record == recs[user_id]
             window_end == record.window_start + window
         IN  IF now >= window_end
             THEN [current_attempts |-> 0, max_requests |-> max,
                   window_end |-> now + window]
             ELSE [current_attempts |-> record.attempts, max_requests |-> max,
                   window_end |-> window_end]

\* rate_limiter.py lines 31-41: RateLimiter(max_requests, window_minutes)
InitLimiter ==
    /\ CoreIdle
    /\ CtxIdle
    /\ RetryIdle
    /\ AppIdle
    /\ max_requests \in 0..MaxRequests
    /\ window_minutes \in 1..MaxWindow
    /\ records = <<>>
    /\ utc_now = 0
    /\ rlCall = NoCall
    /\ checks = <<>>

\* time passes between two calls
LimiterTick ==
    /\ utc_now < MaxNow
    /\ utc_now' = utc_now + 1
    /\ rlCall' = NoCall
    /\ UNCHANGED <<max_requests, window_minutes, records, checks>>
    /\ UNCHANGED <<coreVars, ctxVars, retryVars>>
    /\ UNCHANGED appVars

CheckCall ==
    /\ Len(checks) < MaxChecks
    /\ \E user_id \in Users :
         LET out == check_rate_limit(records, max_requests, window_minutes,
                                     user_id, utc_now)
             call == [op |-> "check", user_id |-> user_id, now |-> utc_now,
                      is_allowed |-> out.is_allowed, remaining |-> out.remaining,
                      window_end |-> out.window_end]
         IN  /\ records' = out.records
             /\ rlCall' = call
             /\ checks' = Append(checks, call)
    /\ UNCHANGED <<max_requests, window_minutes, utc_now>>
    /\ UNCHANGED <<coreVars, ctxVars, retryVars>>
    /\ UNCHANGED appVars

StatusCall ==
    /\ \E user_id \in Users :
         rlCall' = [op |-> "status", user_id |-> user_id, now |-> utc_now,
                    status |-> get_status(records, max_requests, window_minutes,
                                          user_id, utc_now)]
    /\ UNCHANGED <<max_requests, window_minutes, records, utc_now, checks>>
    /\ UNCHANGED <<coreVars, ctxVars, retryVars>>
    /\ UNCHANGED appVars

NextLimiter ==
    \/ LimiterTick
    \/ CheckCall
    \/ StatusCall

SpecLimiter == InitLimiter /\ [][NextLimiter]_vars

(***************************************************************************)
(* Properties of truncate_by_tokens (checked under SpecTrunc).             *)
(***************************************************************************)
\* a is b with some elements left out, order kept
RECURSIVE IsSubsequence(_, _)
IsSubsequence(a, b) ==
    IF a = <<>> THEN TRUE
    ELSE IF b = <<>> THEN FALSE
    ELSE IF Head(a) = Head(b) THEN IsSubsequence(Tail(a), Tail(b))
    ELSE IsSubsequence(a, Tail(b))

\* every message of a is in b, counting repetitions
BagIncluded(a, b) ==
    \A i \in 1..Len(a) : Occurrences(a, a[i]) <= Occurrences(b, a[i])

\* a system message stands after a non-system message
Interleaved(msgs) ==
    \E i, j \in 1..Len(msgs) : i < j /\ NotSystem(msgs[i]) /\ IsSystem(msgs[j])

tSystem == system_msgs(tMessages)
tOthers == other_msgs(tMessages)
tKept == SelectSeq(tResult, NotSystem)

\* C1: for every message list and every max_tokens, the result begins with
\* all system messages of the input in their original order, and every
\* non-system message of the result comes after them, in original order.
C1_SystemFirst ==
    tpc = "done" =>
        /\ Len(tResult) >= Len(tSystem)
        /\ SubSeq(tResult, 1, Len(tSystem)) = tSystem
        /\ \A i \in (Len(tSystem) + 1)..Len(tResult) : NotSystem(tResult[i])
        /\ IsSubsequence(SubSeq(tResult, Len(tSystem) + 1, Len(tResult)), tOthers)

C1_Witness ==
    /\ tpc = "done"
    /\ Interleaved(tMessages)
    /\ Len(tSystem) >= 1
    /\ Len(tResult) > Len(tSystem)
    /\ Len(tResult) < Len(tMessages)

\* C2: when the system total is below max_tokens, the kept non-system
\* messages are exactly the longest suffix of the non-system messages whose
\* token sum is <= max_tokens - system total.
C2_LongestSuffix ==
    (tpc = "done" /\ TokenSum(tSystem) < tMaxTokens) =>
        LET available == tMaxTokens - TokenSum(tSystem)
            k == Len(tKept)
        IN  /\ k <= Len(tOthers)
            /\ tKept = Suffix(tOthers, k)
            /\ TokenSum(tKept) <= available
            /\ k < Len(tOthers) => TokenSum(Suffix(tOthers, k + 1)) > available

\* a newer message was dropped although an older one would still fit
C2_Witness ==
    /\ tpc = "done"
    /\ TokenSum(tSystem) < tMaxTokens
    /\ Len(tKept) >= 1
    /\ Len(tKept) < Len(tOthers)
    /\ \E i \in 1..(Len(tOthers) - Len(tKept) - 1) :
          TokenSum(tKept) + msg_tokens(tOthers[i]) <= tMaxTokens - TokenSum(tSystem)

\* C3: whenever the system total does not exceed max_tokens, the token sum
\* of the result is <= max_tokens.
C3_WithinBudget ==
    (tpc = "done" /\ TokenSum(tSystem) <= tMaxTokens) =>
        TokenSum(tResult) <= tMaxTokens

C3_Witness ==
    /\ tpc = "done"
    /\ Len(tSystem) >= 1
    /\ TokenSum(tSystem) < tMaxTokens
    /\ TokenSum(tMessages) > tMaxTokens
    /\ Len(tKept) >= 1

\* C4: when the system total is >= max_tokens the result is exactly the
\* system messages, in original order, and no non-system message.
C4_SystemOnly ==
    (tpc = "done" /\ TokenSum(tSystem) >= tMaxTokens) =>
        tResult = tSystem

C4_Witness ==
    /\ tpc = "done"
    /\ TokenSum(tSystem) > tMaxTokens
    /\ Len(tSystem) >= 2
    /\ Len(tOthers) >= 1
    /\ tResult = tSystem

\* C5 as stated: when max_tokens is at least the token sum of all messages,
\* the result is the input list unchanged.
C5_Identity ==
    (tpc = "done" /\ tMaxTokens >= TokenSum(tMessages)) =>
        tResult = tMessages

\* C5 amended: when max_tokens is at least the token sum of all messages,
\* the result holds every message of the input, the system messages first
\* and then the non-system messages, each group in original order; it is
\* the input unchanged when no system message follows a non-system one.
C5_AllKeptSystemFirst ==
    (tpc = "done" /\ tMaxTokens >= TokenSum(tMessages)) =>
        /\ tResult = tSystem \o tOthers
        /\ ~Interleaved(tMessages) => tResult = tMessages

C5_Witness ==
    /\ tpc = "done"
    /\ tMaxTokens = TokenSum(tMessages)
    /\ Interleaved(tMessages)
    /\ Len(tResult) = Len(tMessages)
    /\ tResult # tMessages

\* C6: raising max_tokens never removes a message: every message of the
\* result for max_tokens is in the result for every larger budget.
C6_Monotone ==
    tpc = "done" =>
        \A b2 \in Budgets :
            b2 >= tMaxTokens =>
                BagIncluded(tResult, truncate_by_tokens(tMessages, b2))

C6_Witness ==
    /\ tpc = "done"
    /\ Len(tKept) >= 1
    /\ \E b2 \in Budgets :
          /\ b2 > tMaxTokens
          /\ Len(truncate_by_tokens(tMessages, b2)) > Len(tResult)

(***************************************************************************)
(* Properties of load_conversation_history (checked under SpecLoad).       *)
(***************************************************************************)
\* the stored rows of the conversation named in the call
lRows == {messages[i] : i \in {j \in 1..Len(messages) :
                messages[j].conversation_id = lArgs.conversation_id}}

\* the rows the claim says are omitted
lStale ==
    {r \in lRows : /\ lArgs.sanitize_task_refs
                   /\ r.role = "assistant"
                   /\ contains_task_references(r.content)}

\* the owner of the conversation named in the call, as a set
lOwners == {conversations[i].user_id : i \in {j \in 1..Len(conversations) :
                conversations[j].id = lArgs.conversation_id}}

cRows == {messages[i] : i \in {j \in 1..Len(messages) :
                messages[j].conversation_id = conversation}}

\* the stale ones among them: assistant messages with task references
cStale == {r \in cRows : r.role = "assistant" /\ contains_task_references(r.content)}

\* the other rows as agent messages, in created_at order
cFresh ==
    LET fresh == cRows \ cStale
        place(r) == 1 + Cardinality({q \in fresh : q.created_at < r.created_at})
    IN  [i \in 1..Cardinality(fresh) |->
            agent_msg(CHOOSE r \in fresh : place(r) = i)]

\* the agent's input without its last element
cGiven == SubSeq(agent_input, 1, Len(agent_input) - 1)

\* C8: in a chat turn the history is loaded and filtered, then truncated to
\* token_budget, then the agent runs: the agent's input is the newest
\* messages of the filtered history that fit the budget (filtered-out
\* messages take none of it), followed by the new user message as the last
\* element, which is not stored before the agent has run.
C8_ChatTurnOrder ==
    cpc = "save" =>
        /\ Len(messages) = req.rows_before
        /\ history = cFresh
        /\ truncated_history = cGiven
        /\ agent_input # <<>>
        /\ agent_input[Len(agent_input)] = [role |-> "user", content |-> req.message]
        /\ Len(cGiven) <= Len(cFresh)
        /\ cGiven = Suffix(cFresh, Len(cGiven))
        /\ TokenSum(cGiven) <= token_budget
        /\ Len(cGiven) < Len(cFresh) =>
                TokenSum(Suffix(cFresh, Len(cGiven) + 1)) > token_budget

\* a stale message was filtered out, and with it the history would not have
\* fitted the budget
C8_Witness ==
    /\ cpc = "save"
    /\ cStale # {}
    /\ Len(cGiven) >= 1
    /\ TokenSum(db_messages_to_agent_batch(order_by_created_at(cRows))) > token_budget
    /\ Len(agent_input) = Len(cGiven) + 1

\* the request reached the conversation lookup of its endpoint
rLookup ==
    \/ req.kind = "history"
    \/ req.kind = "chat" /\ req.key = "ok" /\ req.conversation_id # 0

rOwners == {conversations[i].user_id : i \in {j \in 1..Len(conversations) :
                conversations[j].id = req.conversation_id}}

\* the request names a conversation that does not exist
rNotFound == rLookup /\ rOwners = {}
\* the request names a conversation of another user
rNotOwned == rLookup /\ rOwners # {} /\ req.user_id \notin rOwners

\* C10 as stated: a request naming a conversation that does not exist is
\* answered 404 and a request naming a conversation of another user is
\* answered with another, 403-style status; the two are never collapsed.
C10_DistinctErrorKinds ==
    cpc = "done" =>
        /\ rNotFound => response.status = 404
        /\ rNotOwned => response.status \in {401, 403}

\* C10 amended: at the HTTP layer (POST /chat with a conversation_id and
\* GET /conversations/{id}) a conversation that does not exist and a
\* conversation of another user get the same answer, 404 with the detail
\* "Conversation not found or you don't have access".
C10_SameNotFoundResponse ==
    cpc = "done" =>
        ((rNotFound \/ rNotOwned) => response = HTTPException(404, NotFoundDetail))

C10_Witness ==
    /\ cpc = "done"
    /\ req.kind = "chat"
    /\ rNotOwned
    /\ \E i \in 1..Len(messages) : messages[i].conversation_id = req.conversation_id
    /\ response.status = 404

(***************************************************************************)
(* Properties of the task context (checked under SpecContext).             *)
(***************************************************************************)
tcIs(op) == tcCall # NoCall /\ tcCall.op = op
tcHasContext == "task_context" \in DOMAIN metadata
tcContext == metadata["task_context"]
tcHasPositions == tcHasContext /\ "positions" \in DOMAIN tcContext
tcPositions == tcContext["positions"]
tcReference == str_lower(tcCall.reference)

\* the instants whose isoformat() is the stored timestamp
tcStamps ==
    IF tcHasContext /\ "timestamp" \in DOMAIN tcContext
    THEN {t \in 0..(MaxMinutes * UnitsPerMinute) :
            tcContext["timestamp"] = PyStr(isoformat(t))}
    ELSE {}

\* the task list read off a positions dict whose keys are "1".."n"
tcListOf(positions) ==
    [k \in 1..Cardinality(DOMAIN positions) |-> [id |-> positions[str_of_int(k)]]]

\* the task lists of which store_task_list_context makes the stored context
tcStoredLists ==
    IF /\ tcHasPositions
       /\ DOMAIN tcPositions =
             {str_of_int(k) : k \in 1..Cardinality(DOMAIN tcPositions)}
    THEN {task_list \in {tcListOf(tcPositions)} \cap TaskLists :
             \E t \in tcStamps : metadata = store_task_list_context(task_list, t)}
    ELSE {}

\* a key as str() writes a positive integer
Canonical(p) == IsDigits(p) /\ str_of_int(DigitsValue(p)) = p /\ DigitsValue(p) >= 1

\* C11: get_task_list_context returns the embedded context exactly when
\* now - timestamp <= expiration_minutes (equality included, default 5
\* minutes), and None for any older context.
C11_ExpiryInclusive ==
    tcIs("get") =>
        \A t \in tcStamps :
            IF clock - t <= tcCall.expiration_minutes * UnitsPerMinute
            THEN tcCall.result = Returned(tcContext)
            ELSE tcCall.result = ReturnedNone

\* a context exactly 5 minutes old is returned under the default expiration
C11_Witness ==
    /\ tcIs("get")
    /\ tcCall.expiration_minutes = DefaultExpirationMinutes
    /\ \E t \in tcStamps : clock - t = DefaultExpirationMinutes * UnitsPerMinute
    /\ tcCall.result.kind = "ok"

\* C12: get_task_list_context never raises: for every metadata map (no
\* task_context entry, no timestamp, or a timestamp value that cannot be
\* parsed as an ISO instant) it returns None, not an exception.
C12_GetNeverRaises ==
    tcIs("get") => tcCall.result.kind \in {"ok", "None"}

\* C13: with the reference "last" in any letter case, the result is the task
\* id stored under the numerically greatest position key (keys compared as
\* integers), and None when positions is empty.
C13_LastIsNumericMax ==
    (/\ tcIs("resolve")
     /\ tcReference = LastWord
     /\ tcHasPositions
     /\ \A p \in DOMAIN tcPositions : Canonical(p))
        => IF DOMAIN tcPositions = {}
           THEN tcCall.result = ReturnedNone
           ELSE \E p \in DOMAIN tcPositions :
                   /\ \A q \in DOMAIN tcPositions : DigitsValue(q) <= DigitsValue(p)
                   /\ tcCall.result = Returned(tcPositions[p])

\* "LAST" picks the id under "10" although "9" is the greatest key as a str
C13_Witness ==
    /\ tcIs("resolve")
    /\ tcCall.reference = str_upper(LastWord)
    /\ tcHasPositions
    /\ DOMAIN tcPositions = {<<"9">>, <<"1", "0">>}
    /\ tcPositions[<<"9">>] # tcPositions[<<"1", "0">>]
    /\ tcCall.result = Returned(tcPositions[<<"1", "0">>])

\* C14: for k in 1..10 the k-th ordinal word, in any letter case, returns
\* what the numeric reference str(k) returns: positions[str(k)] when that
\* key is present, None otherwise.
C14_OrdinalWordIsNumber ==
    tcIs("resolve") =>
        \A k \in 1..Len(OrdinalWords) :
            tcReference = OrdinalWords[k] =>
                /\ tcCall.result =
                      resolve_ordinal_reference(str_of_int(k), tcContext)
                /\ tcCall.result =
                      IF tcHasPositions /\ str_of_int(k) \in DOMAIN tcPositions
                      THEN Returned(tcPositions[str_of_int(k)])
                      ELSE ReturnedNone

\* "TENTH" finds the tenth task of a stored list
C14_Witness ==
    /\ tcIs("resolve")
    /\ tcCall.reference = str_upper(OrdinalWords[10])
    /\ tcHasPositions
    /\ <<"1", "0">> \in DOMAIN tcPositions
    /\ tcCall.result = Returned(tcPositions[<<"1", "0">>])

\* C15: resolve_ordinal_reference never raises: for every reference string
\* and every context map, whatever the keys of positions are, the outcome
\* is a task id or None.
C15_ResolveNeverRaises ==
    tcIs("resolve") => tcCall.result.kind \in {"ok", "None"}

\* C16: for the context stored from a task list T of length n, the keys of
\* positions are exactly "1".."n"; str(k) resolves to the id of T[k-1] for
\* 1 <= k <= n, "last" to the id of T[n-1] when n > 0, and a position
\* above n to None.
C16_StoreResolveRoundTrip ==
    /\ tcIs("store") =>
          /\ tcHasPositions
          /\ DOMAIN tcPositions =
                {str_of_int(k) : k \in 1..Len(tcCall.task_list)}
          /\ tcCall.task_list \in tcStoredLists
    /\ tcIs("resolve") =>
          \A task_list \in tcStoredLists :
              LET n == Len(task_list)
              IN  /\ DOMAIN tcPositions = {str_of_int(k) : k \in 1..n}
                  /\ \A k \in 1..n :
                        tcCall.reference = str_of_int(k) =>
                            tcCall.result = Returned(task_list[k].id)
                  /\ (tcCall.reference = LastWord /\ n > 0) =>
                        tcCall.result = Returned(task_list[n].id)
                  /\ \A k \in (n + 1)..(MaxTasks + 1) :
                        tcCall.reference = str_of_int(k) =>
                            tcCall.result = ReturnedNone

\* "last" on a stored list of more than nine tasks gives the id of its last task
C16_Witness ==
    /\ tcIs("resolve")
    /\ tcCall.reference = LastWord
    /\ \E task_list \in tcStoredLists :
          /\ Len(task_list) > 9
          /\ tcCall.result = Returned(task_list[Len(task_list)].id)

(***************************************************************************)
(* Properties of BackendClient._request (checked under SpecRequest and     *)
(* FairSpecRequest).                                                       *)
(***************************************************************************)
\* an httpx.TimeoutException or an httpx.ConnectError
rTransient(o) ==
    o.kind = "exception" /\ isinstance(o.class, {"TimeoutException", "ConnectError"})
rLast == attempts[Len(attempts)]
rEarlier == {attempts[i] : i \in 1..(Len(attempts) - 1)}

\* at no time more than three attempts; a finished call gives the outcome of
\* its last attempt, after failed attempts only; it raises a timeout or
\* connection error only from the third attempt; it waits for another
\* attempt only after such an error and before the third attempt
rWithinThree ==
    /\ Len(attempts) <= StopAfterAttempt
    /\ attempt_number <= StopAfterAttempt
    /\ rpc = "done" =>
          /\ rOutcome = rLast
          /\ \A o \in rEarlier : rTransient(o)
          /\ rTransient(rOutcome) => Len(attempts) = StopAfterAttempt
    /\ rpc = "sleep" => rTransient(rLast) /\ Len(attempts) < StopAfterAttempt
    /\ rpc = "attempt" => Len(attempts) = attempt_number - 1

\* C17: _request terminates after at most 3 attempts: it returns the first
\* response obtained, retries after a timeout or connection error while
\* fewer than 3 attempts were made, and re-raises after the third
\* consecutive failure.
C17_TerminatesWithinThree ==
    /\ [](rWithinThree)
    /\ (rpc \in {"attempt", "sleep"}) ~> (rpc = "done")

\* three timeouts in a row: the third one is raised
C17_Witness ==
    /\ rpc = "done"
    /\ Len(attempts) = StopAfterAttempt
    /\ \A i \in 1..Len(attempts) : rTransient(attempts[i])
    /\ rOutcome = HttpxError("ReadTimeout")
    /\ backoff = <<1, 2>>

\* C18: _request retries on timeout and connection errors only: any HTTP
\* response, 4xx and 5xx included, is returned after the attempt that got
\* it, and any other exception is let out after the attempt that raised it.
C18_RetryTransientOnly ==
    /\ \A o \in rEarlier : rTransient(o)
    /\ (attempts # <<>> /\ ~rTransient(rLast)) =>
          /\ rpc = "done"
          /\ rOutcome = rLast
    /\ (attempts # <<>> /\ rpc = "sleep") => rTransient(rLast)

\* a 500 response to the first attempt is returned at once
C18_Witness ==
    /\ rpc = "done"
    /\ attempts = <<HttpResponse(500)>>
    /\ rOutcome = HttpResponse(500)

(***************************************************************************)
(* Properties of the agent run of a chat turn (checked under Spec).        *)
(***************************************************************************)
\* config.py lines 44-49: AgentConfig.mcp_retry_attempts, default
mcp_retry_attempts == 3

\* C19: when opening the MCP connection, or the agent run over it, fails
\* with a timeout or connection error, the operation is retried, and the
\* error reaches the chat endpoint only after mcp_retry_attempts (3)
\* attempts.
C19_McpRetriedBeforeError ==
    (cpc = "done" /\ agent_failure # "none") => mcp_attempts = mcp_retry_attempts

(***************************************************************************)
(* Properties of the rate limiter (checked under SpecLimiter).             *)
(***************************************************************************)
\* the allowed calls, among the first n, that user u made in the window
\* that u's record has now
rlAllowedInWindow(u, n) ==
    {i \in 1..n :
        /\ checks[i].user_id = u
        /\ checks[i].is_allowed
        /\ checks[i].now >= records[u].window_start
        /\ checks[i].now < records[u].window_start + window_minutes}

rlCheckStep(u) == checks' # checks /\ rlCall'.user_id = u

\* the step is a call of u made when u's window has expired
rlExpiredStep(u) ==
    /\ rlCheckStep(u)
    /\ u \in DOMAIN records
    /\ utc_now >= records[u].window_start + window_minutes

rlWindowReset ==
    \A u \in Users :
        /\ rlExpiredStep(u) =>
              /\ rlCall'.is_allowed
              /\ rlCall'.remaining = max_requests - 1
              /\ records'[u] = [attempts |-> 1, window_start |-> utc_now]
              /\ rlCall'.window_end = utc_now + window_minutes
        /\ (rlCheckStep(u) /\ ~rlCall'.is_allowed /\ u \in DOMAIN records) =>
              records'[u].window_start = records[u].window_start

\* C21: the first check_rate_limit call of a user at or after window_start +
\* window_minutes is allowed, starts a new window at the call's time with
\* attempts = 1 and returns remaining = max_requests - 1; a denied call
\* never moves window_start.
C21_WindowReset == [][rlWindowReset]_vars

\* a user was denied twice, kept the window, and is allowed again at its end
C21_Witness ==
    /\ Len(checks) >= 3
    /\ max_requests >= 1
    /\ \E i, j, k \in 1..Len(checks) :
          /\ i < j /\ j < k
          /\ checks[i].user_id = "u1" /\ ~checks[i].is_allowed
          /\ checks[j].user_id = "u1" /\ ~checks[j].is_allowed
          /\ checks[j].now > checks[i].now
          /\ checks[j].window_end = checks[i].window_end
          /\ checks[k].user_id = "u1" /\ checks[k].is_allowed
          /\ checks[k].now = checks[i].window_end
          /\ checks[k].remaining = max_requests - 1

rlOthersUntouched ==
    \A u \in Users :
        rlCheckStep(u) =>
            /\ DOMAIN records' = DOMAIN records \cup {u}
            /\ \A v \in DOMAIN records : v # u => records'[v] = records[v]

\* C22: check_rate_limit(u) creates or changes only u's record; every other
\* user's attempts and window_start stay as they were, so a user who has
\* used up the limit does not block another user.
C22_PerUser == [][rlOthersUntouched]_vars

\* u1 is denied, and u2's first call in the same minute is allowed
C22_Witness ==
    /\ max_requests >= 1
    /\ \E i, j \in 1..Len(checks) :
          /\ i < j
          /\ checks[i].user_id = "u1" /\ ~checks[i].is_allowed
          /\ checks[j].user_id = "u2" /\ checks[j].is_allowed
          /\ checks[j].now = checks[i].now
          /\ checks[j].remaining = max_requests - 1
          /\ "u1" \in DOMAIN records /\ records["u1"].attempts = max_requests

\* C27: for every max_requests >= 0, each record has 0 <= attempts <=
\* max_requests, every returned remaining is >= 0 and is max_requests -
\* attempts on an allowed call.
C27_AttemptsWithinLimit ==
    /\ \A u \in DOMAIN records :
          records[u].attempts >= 0 /\ records[u].attempts <= max_requests
    /\ \A i \in 1..Len(checks) : checks[i].remaining >= 0
    /\ (rlCall # NoCall /\ rlCall.op = "check" /\ rlCall.is_allowed) =>
          rlCall.remaining = max_requests - records[rlCall.user_id].attempts

\* the rows of the conversation that was loaded
lLoadedRows == messages_of(messages, lArgs.conversation_id)

\* C29: every message returned by load_conversation_history has the role and
\* the content of a stored row of the conversation, whatever the row's
\* message_metadata contains.
C29_RoleContentPreserved ==
    (lResult # NoCall /\ lResult.kind = "ok") =>
        \A i \in 1..Len(lResult.value) :
            \E row \in lLoadedRows :
                /\ lResult.value[i]["role"] = row.role
                /\ lResult.value[i]["content"] = row.content

\* the two rows a chat turn stores, as they follow the rows before
cTurnRows ==
    LET user_message == NewMessage(messages, conversation, "user", req.message)
        with_user == Append(messages, user_message)
    IN  <<user_message,
          NewMessage(with_user, conversation, "assistant", response_text)>>

\* the step ends a POST /chat request
cChatEnds == cpc # "done" /\ cpc' = "done" /\ req'.kind = "chat"

cAllOrNothing ==
    /\ messages' # messages =>
          /\ cpc = "save" /\ cChatEnds
          /\ response'.status = 200
          /\ messages' = messages \o cTurnRows
          /\ messages'[Len(messages') - 1].role = "user"
          /\ messages'[Len(messages') - 1].content = req.message
          /\ messages'[Len(messages')].role = "assistant"
          /\ messages'[Len(messages')].content = response_text
    /\ cChatEnds =>
          /\ response'.status = 200 => Len(messages') = req'.rows_before + 2
          /\ response'.status # 200 =>
                /\ messages' = messages
                /\ Len(messages') = req'.rows_before
                /\ response'.status \in {400, 404, 500, 503}
    /\ cpc' \in {"load", "agent", "save"} => Len(messages') = req'.rows_before

\* C28: a successful POST /chat appends exactly two messages, the user
\* message then the assistant reply, in the one commit after the agent run;
\* when loading the history, the truncation or the agent run fails, no
\* message is stored and the stored messages are unchanged, and the answer
\* is 503 or the original HTTP error.
C28_AllOrNothing == [][cAllOrNothing]_vars

\* a turn failed in the agent run after an earlier turn of the same
\* conversation had stored its two messages, and stored nothing
C28_Witness ==
    /\ cpc = "done" /\ req.kind = "chat"
    /\ agent_failure \in AgentFailures
    /\ response.status = 503
    /\ Len(messages) = 2 /\ req.rows_before = 2
    /\ messages[1].role = "user" /\ messages[2].role = "assistant"
    /\ messages[1].conversation_id = conversation
    /\ history # <<>>

\* ---------------------------------------------------------------------
\* MemoryStore (src/storage/memory_store.py)
\* ---------------------------------------------------------------------

MaxAdds == 3

\* a Python dict as its items in insertion order: d[k] = v replaces the
\* value of an existing key in place and appends a new key
dict_set(d, k, v) ==
    IF \E i \in 1..Len(d) : d[i].key = k
    THEN [i \in 1..Len(d) |-> IF d[i].key = k THEN [key |-> k, value |-> v]
                              ELSE d[i]]
    ELSE Append(d, [key |-> k, value |-> v])

\* k in d
dict_has(d, k) == \E i \in 1..Len(d) : d[i].key = k

\* d[k], for a key of d
dict_at(d, k) == d[CHOOSE i \in 1..Len(d) : d[i].key = k].value

\* del d[k]
RECURSIVE dict_del(_, _)
dict_del(d, k) ==
    IF d = <<>> THEN <<>>
    ELSE IF Head(d).key = k THEN Tail(d)
    ELSE <<Head(d)>> \o dict_del(Tail(d), k)

\* list(d.values())
dict_values(d) == [i \in 1..Len(d) |-> d[i].value]

\* a.update(b) on two dicts with string keys
dict_update(a, b) == b @@ a

\* add_task taking the number of stored tasks plus one as the id
add_task_count_plus_one(tasks, nid, task_data) ==
    LET id == Len(tasks) + 1
        task_with_id == dict_update(task_data, [id |-> id])
    IN  [tasks |-> dict_set(tasks, id, task_with_id), next_id |-> nid + 1,
         result |-> task_with_id]

\* memory_store.py lines 13-27
add_task(tasks, nid, task_data) ==
    LET task_with_id == dict_update(task_data, [id |-> nid])
        stored == dict_set(tasks, nid, task_with_id)
    IN  [tasks |-> stored, next_id |-> nid + 1,
         result |-> dict_at(stored, nid)]

\* memory_store.py lines 40-46
get_all(tasks) == dict_values(tasks)

\* memory_store.py lines 48-61
update_task(tasks, task_id, updates) ==
    IF ~dict_has(tasks, task_id)
    THEN [tasks |-> tasks, result |-> ReturnedNone]
    ELSE LET updated == dict_update(dict_at(tasks, task_id), updates)
         IN  [tasks |-> dict_set(tasks, task_id, updated),
              result |-> Returned(updated)]

\* memory_store.py lines 63-75
delete_task(tasks, task_id) ==
    IF dict_has(tasks, task_id)
    THEN [tasks |-> dict_del(tasks, task_id), result |-> TRUE]
    ELSE [tasks |-> tasks, result |-> FALSE]

\* the task dicts task_service.py hands to add_task
TaskData ==
    {[title |-> t, description |-> "d0", completed |-> FALSE] : t \in {"a", "b"}}

\* the update dicts of cli/commands.py lines 87 and 147
TaskUpdates == {[completed |-> TRUE], [description |-> "d1"]}

\* memory_store.py lines 8-11
InitStore ==
    /\ MsRestIdle
    /\ ms_tasks = <<>>
    /\ next_id = 1
    /\ assigned = <<>>
    /\ msCall = NoCall

AddTask ==
    /\ next_id <= MaxAdds
    /\ \E task_data \in TaskData :
         LET out == add_task(ms_tasks, next_id, task_data)
         IN  /\ ms_tasks' = out.tasks
             /\ next_id' = out.next_id
             /\ assigned' = Append(assigned, out.result["id"])
             /\ msCall' = [kind |-> "add_task", result |-> out.result]
    /\ UNCHANGED msRest

GetAll ==
    /\ msCall' = [kind |-> "get_all", result |-> get_all(ms_tasks)]
    /\ UNCHANGED <<ms_tasks, next_id, assigned>>
    /\ UNCHANGED msRest

UpdateTask ==
    /\ \E task_id \in 1..(MaxAdds + 1), updates \in TaskUpdates :
         LET out == update_task(ms_tasks, task_id, updates)
         IN  /\ ms_tasks' = out.tasks
             /\ msCall' = [kind |-> "update_task", task_id |-> task_id,
                           result |-> out.result]
    /\ UNCHANGED <<next_id, assigned>>
    /\ UNCHANGED msRest

DeleteTask ==
    /\ \E task_id \in 1..(MaxAdds + 1) :
         LET out == delete_task(ms_tasks, task_id)
         IN  /\ ms_tasks' = out.tasks
             /\ msCall' = [kind |-> "delete_task", task_id |-> task_id,
                           result |-> out.result]
    /\ UNCHANGED <<next_id, assigned>>
    /\ UNCHANGED msRest

NextStore == AddTask \/ GetAll \/ UpdateTask \/ DeleteTask

SpecStore == InitStore /\ [][NextStore]_vars

\* the ids of the tasks of a list
msIds(list) == [i \in 1..Len(list) |-> list[i]["id"]]

msAscending(ids) == \A i \in 1..(Len(ids) - 1) : ids[i] < ids[i + 1]

\* C25: the k-th add_task of a store's lifetime receives id k, whatever
\* update_task and delete_task calls were made in between, so no id is
\* given twice, and get_all lists the tasks in ascending id order.
C25_SequentialIds ==
    /\ \A k \in 1..Len(assigned) : assigned[k] = k
    /\ next_id = Len(assigned) + 1
    /\ \A i \in 1..Len(ms_tasks) :
          /\ ms_tasks[i].value["id"] = ms_tasks[i].key
          /\ ms_tasks[i].key \in 1..Len(assigned)
    /\ msAscending(msIds(get_all(ms_tasks)))
    /\ msCall.kind = "get_all" => msAscending(msIds(msCall.result))
    /\ msCall.kind = "add_task" => msCall.result["id"] = Len(assigned)

\* the add_task just made followed the deletion of task 1 and an update of
\* task 2: it received id 3 although two tasks were stored
C25_Witness ==
    /\ msCall.kind = "add_task"
    /\ msCall.result["id"] = 3
    /\ assigned = <<1, 2, 3>>
    /\ msIds(get_all(ms_tasks)) = <<2, 3>>
    /\ ms_tasks[1].value["completed"] = TRUE

\* ---------------------------------------------------------------------
\* Tasks of the backend (database/repository.py, api/routers/tasks.py)
\* ---------------------------------------------------------------------

MaxTaskRows == 2

PyBool(b) == [type |-> "bool", value |-> b]

\* repository.py line 10: _UNSET = object()
Unset == [type |-> "_UNSET"]

\* str.strip() on a string of characters
RECURSIVE lstrip(_)
lstrip(chars) ==
    IF chars # <<>> /\ Head(chars) = " " THEN lstrip(Tail(chars)) ELSE chars

RECURSIVE rstrip(_)
rstrip(chars) ==
    IF chars # <<>> /\ chars[Len(chars)] = " "
    THEN rstrip(SubSeq(chars, 1, Len(chars) - 1))
    ELSE chars

strip(chars) == rstrip(lstrip(chars))

\* models/database.py lines 24-32: the row an INSERT stores
TaskRow(id, user_id, title, description, now) ==
    [id |-> id, user_id |-> user_id, title |-> title,
     description |-> description, completed |-> PyBool(FALSE),
     priority |-> "Medium", due_date |-> PyNone,
     created_at |-> now, updated_at |-> now]

\* WHERE Task.id == task_id AND Task.user_id == user_id
where_id_user(rows, task_id, user_id) ==
    {i \in 1..Len(rows) : rows[i].id = task_id /\ rows[i].user_id = user_id}

\* WHERE Task.id == task_id
where_id(rows, task_id) == {i \in 1..Len(rows) : rows[i].id = task_id}

\* the rows at the indices of S, in descending order of created_at
RECURSIVE order_by_created_at_desc(_, _)
order_by_created_at_desc(rows, S) ==
    IF S = {} THEN <<>>
    ELSE LET first == CHOOSE i \in S :
                          \A j \in S : rows[j].created_at <= rows[i].created_at
         IN  <<rows[first]>> \o order_by_created_at_desc(rows, S \ {first})

\* repository.py lines 25-40
get_all_by_user(rows, user_id) ==
    order_by_created_at_desc(rows,
        {i \in 1..Len(rows) : rows[i].user_id = user_id})

\* repository.py lines 42-56
get_by_id(rows, task_id, user_id) ==
    LET found == where_id_user(rows, task_id, user_id)
    IN  IF found = {} THEN ReturnedNone
        ELSE Returned(rows[CHOOSE i \in found : TRUE])

\* repository.py lines 58-79
create(rows, seq, now, user_id, title, description) ==
    LET task == TaskRow(seq + 1, user_id, title, description, now)
    IN  [rows |-> Append(rows, task), seq |-> seq + 1, result |-> task]

\* UPDATE tasks SET ... : the row with the values of update_data; updated_at
\* has onupdate=func.now() (models/database.py line 32)
updated_row(row, now, title, description, completed) ==
    [row EXCEPT !.title = IF title # Unset THEN title ELSE @,
                !.description = IF description # Unset THEN description ELSE @,
                !.completed = IF completed # Unset THEN completed ELSE @,
                !.updated_at = now]

\* repository.py lines 81-123
update_rows(found, rows, now, task_id, user_id, title, description, completed) ==
    LET update_data == {k \in {"title", "description", "completed"} :
                           \/ k = "title" /\ title # Unset
                           \/ k = "description" /\ description # Unset
                           \/ k = "completed" /\ completed # Unset}
    IN  IF update_data = {}
        THEN [rows |-> rows, result |-> get_by_id(rows, task_id, user_id)]
        ELSE IF found = {}
        THEN [rows |-> rows, result |-> ReturnedNone]
        ELSE LET i == CHOOSE j \in found : TRUE
                 row == updated_row(rows[i], now, title, description, completed)
             IN  [rows |-> [rows EXCEPT ![i] = row], result |-> Returned(row)]

\* update with the statement's WHERE clause naming the id only
update_any_user(rows, now, task_id, user_id, title, description, completed) ==
    update_rows(where_id(rows, task_id), rows, now, task_id, user_id,
                title, description, completed)

\* repository.py lines 81-123
update(rows, now, task_id, user_id, title, description, completed) ==
    update_rows(where_id_user(rows, task_id, user_id), rows, now, task_id,
                user_id, title, description, completed)

\* the rows without those at the indices of S
RECURSIVE without(_, _)
without(rows, S) ==
    IF rows = <<>> THEN <<>>
    ELSE LET rest == without(Tail(rows), {i - 1 : i \in S \ {1}})
         IN  IF 1 \in S THEN rest ELSE <<Head(rows)>> \o rest

\* delete with the statement's WHERE clause naming the id only
delete_any_user(rows, task_id, user_id) ==
    LET found == where_id(rows, task_id)
    IN  [rows |-> without(rows, found), result |-> Cardinality(found) > 0]

\* repository.py lines 125-139
delete(rows, task_id, user_id) ==
    LET found == where_id_user(rows, task_id, user_id)
    IN  [rows |-> without(rows, found), result |-> Cardinality(found) > 0]

\* repository.py lines 141-162
RECURSIVE bulk_delete(_, _, _)
bulk_delete(rows, task_ids, user_id) ==
    IF task_ids = <<>>
    THEN [rows |-> rows, deleted |-> <<>>, not_found |-> <<>>]
    ELSE LET was_deleted == delete(rows, Head(task_ids), user_id)
             rest == bulk_delete(was_deleted.rows, Tail(task_ids), user_id)
         IN  [rows |-> rest.rows,
              deleted |-> IF was_deleted.result
                          THEN <<Head(task_ids)>> \o rest.deleted
                          ELSE rest.deleted,
              not_found |-> IF was_deleted.result THEN rest.not_found
                            ELSE <<Head(task_ids)>> \o rest.not_found]

\* the 404 of the endpoints; the detail is f"Task {task_id} not found"
TaskNotFound(task_id) == HTTPException(404, "Task {task_id} not found")

\* api/schemas/task.py lines 63-90: TaskUpdate built from the JSON body, a
\* dict from the keys sent to their values (null is PyNone)
TaskUpdate(body) ==
    LET sent(k) == k \in DOMAIN body /\ body[k] # PyNone
        title_error ==
            sent("title") /\ (Len(body["title"].chars) < 1
                              \/ strip(body["title"].chars) = <<>>)
        title == IF sent("title") THEN PyStr(strip(body["title"].chars))
                 ELSE PyNone
        description ==
            IF sent("description") /\ strip(body["description"].chars) # <<>>
            THEN PyStr(strip(body["description"].chars))
            ELSE PyNone
        completed == IF sent("completed") THEN body["completed"] ELSE PyNone
        priority == IF sent("priority") THEN body["priority"] ELSE PyNone
    IN  IF title_error THEN Raised("ValidationError")
        ELSE Returned([title |-> title, description |-> description,
                       completed |-> completed, priority |-> priority,
                       model_fields_set |-> DOMAIN body])

\* the keyword arguments of tasks.py lines 164-178, with a description of
\* None always taken as "not provided"
update_kwargs_null_is_unset(task_update) ==
    [title |-> IF task_update.title # PyNone THEN task_update.title ELSE Unset,
     description |-> IF task_update.description # PyNone
                     THEN task_update.description ELSE Unset,
     completed |-> IF task_update.completed # PyNone
                   THEN task_update.completed ELSE Unset]

\* tasks.py lines 164-178
update_kwargs(task_update) ==
    [title |-> IF task_update.title # PyNone THEN task_update.title ELSE Unset,
     description |-> IF \/ task_update.description # PyNone
                        \/ "description" \in task_update.model_fields_set
                     THEN task_update.description ELSE Unset,
     completed |-> IF task_update.completed # PyNone
                   THEN task_update.completed ELSE Unset]

\* tasks.py lines 136-188: the rows afterwards and the response
update_task_details(rows, now, task_id, current_user, body) ==
    LET task_update == TaskUpdate(body)
    IN  IF task_update.kind # "ok"
        THEN [rows |-> rows,
              response |-> HTTPException(422, "Title cannot be empty or whitespace only")]
        ELSE LET kw == update_kwargs(task_update.value)
                 out == update(rows, now, task_id, current_user,
                               kw.title, kw.description, kw.completed)
             IN  IF out.result.kind # "ok"
                 THEN [rows |-> rows, response |-> TaskNotFound(task_id)]
                 ELSE [rows |-> out.rows, response |-> Ok200(out.result.value)]

\* --- the endpoints of api/routers/tasks.py, called by any user ---

InitTasks ==
    /\ RepoRestIdle
    /\ task_rows = <<>>
    /\ task_seq = 0
    /\ db_now = 0
    /\ tkCall = NoCall

\* tasks.py lines 36-58: POST /tasks
CreateTask ==
    /\ task_seq < MaxTaskRows
    /\ \E current_user \in Users :
         LET out == create(task_rows, task_seq, db_now + 1, current_user,
                           PyStr(<<"a">>), PyNone)
         IN  /\ task_rows' = out.rows
             /\ task_seq' = out.seq
             /\ tkCall' = [kind |-> "create", user_id |-> current_user,
                           response |-> [status |-> 201, detail |-> "",
                                         body |-> out.result]]
    /\ db_now' = db_now + 1
    /\ UNCHANGED repoRest

\* tasks.py lines 61-92: GET /tasks/{task_id}
GetTask ==
    /\ \E current_user \in Users, task_id \in 1..(MaxTaskRows + 1) :
         LET task == get_by_id(task_rows, task_id, current_user)
         IN  tkCall' = [kind |-> "get", user_id |-> current_user,
                        task_id |-> task_id,
                        response |-> IF task.kind # "ok"
                                     THEN TaskNotFound(task_id)
                                     ELSE Ok200(task.value)]
    /\ UNCHANGED <<task_rows, task_seq, db_now>>
    /\ UNCHANGED repoRest

\* tasks.py lines 21-33: GET /tasks
GetAllTasks ==
    /\ \E current_user \in Users :
         tkCall' = [kind |-> "get_all", user_id |-> current_user,
                    response |-> Ok200(get_all_by_user(task_rows, current_user))]
    /\ UNCHANGED <<task_rows, task_seq, db_now>>
    /\ UNCHANGED repoRest

\* tasks.py lines 95-133: PATCH /tasks/{task_id}
PatchTask ==
    /\ \E current_user \in Users, task_id \in 1..(MaxTaskRows + 1) :
         LET out == update(task_rows, db_now, task_id, current_user,
                           Unset, Unset, PyBool(TRUE))
         IN  /\ task_rows' = out.rows
             /\ tkCall' = [kind |-> "patch", user_id |-> current_user,
                           task_id |-> task_id,
                           response |-> IF out.result.kind # "ok"
                                        THEN TaskNotFound(task_id)
                                        ELSE Ok200(out.result.value)]
    /\ UNCHANGED <<task_seq, db_now>>
    /\ UNCHANGED repoRest

\* tasks.py lines 191-218: DELETE /tasks/{task_id}
DeleteTaskById ==
    /\ \E current_user \in Users, task_id \in 1..(MaxTaskRows + 1) :
         LET out == delete(task_rows, task_id, current_user)
         IN  /\ task_rows' = out.rows
             /\ tkCall' = [kind |-> "delete", user_id |-> current_user,
                           task_id |-> task_id,
                           response |-> IF ~out.result
                                        THEN TaskNotFound(task_id)
                                        ELSE [status |-> 204, detail |-> "",
                                              body |-> <<>>]]
    /\ UNCHANGED <<task_seq, db_now>>
    /\ UNCHANGED repoRest

\* tasks.py lines 221-246: POST /tasks/bulk-delete
BulkDeleteTasks ==
    /\ \E current_user \in Users,
          task_ids \in SeqsUpTo(1..(MaxTaskRows + 1), 2) \ {<<>>} :
         LET out == bulk_delete(task_rows, task_ids, current_user)
         IN  /\ task_rows' = out.rows
             /\ tkCall' = [kind |-> "bulk_delete", user_id |-> current_user,
                           task_ids |-> task_ids,
                           response |-> Ok200([deleted |-> out.deleted,
                                               not_found |-> out.not_found])]
    /\ UNCHANGED <<task_seq, db_now>>
    /\ UNCHANGED repoRest

NextTasks ==
    \/ CreateTask
    \/ GetTask
    \/ GetAllTasks
    \/ PatchTask
    \/ DeleteTaskById
    \/ BulkDeleteTasks

SpecTasks == InitTasks /\ [][NextTasks]_vars

\* --- PUT /tasks/{task_id} on a stored table ---

\* a key the JSON body does not hold
Omitted == [type |-> "omitted"]

BodyOf(title, description, completed, priority) ==
    LET all == [title |-> title, description |-> description,
                completed |-> completed, priority |-> priority]
    IN  [k \in {j \in DOMAIN all : all[j] # Omitted} |-> all[k]]

\* the JSON bodies of PUT /tasks/{task_id}: each key omitted, null or a value
PutBodies ==
    {BodyOf(t, d, c, p) :
        t \in {Omitted, PyNone, PyStr(<<"b">>), PyStr(<<" ">>)},
        d \in {Omitted, PyNone, PyStr(<<"y">>), PyStr(<<" ">>)},
        c \in {Omitted, PyNone, PyBool(TRUE), PyBool(FALSE)},
        p \in {Omitted, [type |-> "PriorityLevel", value |-> "High"]}}

\* the table: a task of u1 and a task of u2, stored earlier
StoredTables ==
    {<<[TaskRow(1, "u1", PyStr(<<"a">>), d, 1) EXCEPT !.completed = c],
       TaskRow(2, "u2", PyStr(<<"a">>), PyStr(<<"x">>), 2)>> :
        d \in {PyNone, PyStr(<<"x">>)}, c \in {PyBool(FALSE), PyBool(TRUE)}}

InitPut ==
    /\ RepoRestIdle
    /\ task_rows \in StoredTables
    /\ task_seq = 2
    /\ db_now \in 2..3
    /\ tkCall = NoCall

\* tasks.py lines 136-188: PUT /tasks/{task_id}
PutTask ==
    /\ tkCall = NoCall
    /\ \E current_user \in Users, task_id \in 1..3, body \in PutBodies :
         LET out == update_task_details(task_rows, db_now, task_id,
                                        current_user, body)
         IN  /\ task_rows' = out.rows
             /\ tkCall' = [kind |-> "put", user_id |-> current_user,
                           task_id |-> task_id, body |-> body,
                           response |-> out.response]
    /\ UNCHANGED <<task_seq, db_now>>
    /\ UNCHANGED repoRest

NextPut == PutTask

SpecPut == InitPut /\ [][NextPut]_vars

\* the rows of the table that belong to somebody other than user_id
tkForeign(rows, user_id) ==
    {rows[i] : i \in {j \in 1..Len(rows) : rows[j].user_id # user_id}}

\* the ids a call names
tkNamedIds(call) ==
    IF call.kind \in {"get", "patch", "delete", "put"} THEN {call.task_id}
    ELSE IF call.kind = "bulk_delete"
    THEN {call.task_ids[i] : i \in 1..Len(call.task_ids)}
    ELSE {}

\* the task rows a response carries
tkReturned(call) ==
    IF call.response.status \notin {200, 201} THEN {}
    ELSE IF call.kind = "get_all"
    THEN {call.response.body[i] : i \in 1..Len(call.response.body)}
    ELSE IF call.kind = "bulk_delete" THEN {}
    ELSE {call.response.body}

\* the call made by the step names a task of another user
tkOnForeign ==
    \E r \in tkForeign(task_rows, tkCall'.user_id) : r.id \in tkNamedIds(tkCall')

tkIsolation ==
    tkCall' # NoCall =>
        LET call == tkCall'
            foreign == tkForeign(task_rows, call.user_id)
        IN  /\ \A r \in foreign : \E i \in 1..Len(task_rows') : task_rows'[i] = r
            /\ \A r \in tkReturned(call) : r.user_id = call.user_id
            /\ \A r \in foreign :
                  /\ (call.kind \in {"get", "patch", "delete"} /\ call.task_id = r.id)
                        => call.response.status = 404
                  /\ (call.kind = "bulk_delete" /\ r.id \in tkNamedIds(call))
                        => /\ \E i \in 1..Len(call.response.body.not_found) :
                                 call.response.body.not_found[i] = r.id
                           /\ \A i \in 1..Len(call.response.body.deleted) :
                                 call.response.body.deleted[i] # r.id
            /\ call.kind = "get_all" =>
                  tkReturned(call) =
                      {task_rows[i] : i \in {j \in 1..Len(task_rows) :
                                                task_rows[j].user_id = call.user_id}}

\* C23: whatever create, get, update, delete and bulk-delete calls the users
\* have made, a call of user A that names a task of user B reports not-found
\* (404, or the id in not_found), returns no row of B and leaves B's rows as
\* they were; the list of A's tasks holds exactly the rows whose user_id is A.
C23_OwnershipIsolation == [][tkIsolation]_vars

\* u1, who owns task 1, asked to delete task 2 of u2 and was answered 404,
\* and task 2 is still stored, completed by its owner
C23_Witness ==
    /\ tkCall.kind = "delete"
    /\ tkCall.user_id = "u1"
    /\ tkCall.task_id = 2
    /\ tkCall.response.status = 404
    /\ Len(task_rows) = 2
    /\ task_rows[1].user_id = "u1"
    /\ task_rows[2].user_id = "u2" /\ task_rows[2].id = 2
    /\ task_rows[2].completed = PyBool(TRUE)

\* the row of the table with the id, as a set
tkRow(rows, task_id) ==
    {rows[i] : i \in {j \in 1..Len(rows) : rows[j].id = task_id}}

\* key k is in the body with a value other than null
tkSent(body, k) == k \in DOMAIN body /\ body[k] # PyNone

\* the step is a PUT answered 200: what it may and may not change in the
\* row; others are the columns no request field names
tkPartial(others) ==
    (tkCall = NoCall /\ tkCall' # NoCall /\ tkCall'.kind = "put") =>
        LET call == tkCall'
            body == call.body
            old == tkRow(task_rows, call.task_id)
            new == tkRow(task_rows', call.task_id)
        IN  IF call.response.status # 200
            THEN task_rows' = task_rows
            ELSE /\ Cardinality(old) = 1 /\ Cardinality(new) = 1
                 /\ \A r \in old : r.user_id = call.user_id
                 /\ \A i \in 1..Len(task_rows) :
                       task_rows[i].id # call.task_id => task_rows'[i] = task_rows[i]
                 /\ Len(task_rows') = Len(task_rows)
                 /\ \A r \in old, n \in new :
                       /\ call.response.body = n
                       /\ ~tkSent(body, "title") => n.title = r.title
                       /\ ~tkSent(body, "completed") => n.completed = r.completed
                       /\ "description" \notin DOMAIN body =>
                             n.description = r.description
                       /\ ("description" \in DOMAIN body /\ body["description"] = PyNone)
                             => n.description = PyNone
                       /\ \A k \in others : n[k] = r[k]

\* C24 as stated: a field omitted from the PUT request keeps its stored
\* value, description sent as null is cleared, title or completed sent as
\* null keep their stored values, and no column other than those set in the
\* request is changed.
C24_OnlyRequestedFieldsChange ==
    [][tkPartial({"id", "user_id", "priority", "due_date", "created_at",
                  "updated_at"})]_vars

\* C24, amended: as stated, for every column but updated_at, which the
\* database sets to now() in every UPDATE statement.
C24_PartialUpdate ==
    [][tkPartial({"id", "user_id", "priority", "due_date", "created_at"})]_vars

\* a PUT that sent description as null and title and completed as null
\* cleared the description and kept the title and the completion
C24_Witness ==
    /\ tkCall.kind = "put"
    /\ tkCall.user_id = "u1" /\ tkCall.task_id = 1
    /\ tkCall.response.status = 200
    /\ DOMAIN tkCall.body = {"title", "description", "completed"}
    /\ tkCall.body["description"] = PyNone
    /\ tkCall.body["title"] = PyNone
    /\ tkCall.body["completed"] = PyNone
    /\ task_rows[1].description = PyNone
    /\ task_rows[1].title = PyStr(<<"a">>)
    /\ task_rows[1].completed = PyBool(TRUE)
    /\ task_rows[1].updated_at > task_rows[1].created_at

\* ---------------------------------------------------------------------
\* Refresh tokens (services/refresh_token_service.py, api/routers/auth.py)
\* ---------------------------------------------------------------------

MaxSessions == 2
MaxExpiry == 2
MaxAuthNow == 3

RefreshTokens == {"t1", "t2"}

\* refresh_token_service.py lines 35-45: SHA-256, taken as free of collisions
hash_refresh_token(token) == [alg |-> "sha256", of |-> token]

\* a token stored as it is, not hashed
plain_token(token) == [alg |-> "plain", of |-> token]

\* a datetime: its time in days, and whether it carries a tzinfo
datetime(days, tzinfo) == [days |-> days, tzinfo |-> tzinfo]

\* datetime.__lt__: comparing an offset-naive with an offset-aware datetime
\* raises TypeError
datetime_lt(a, b) ==
    IF a.tzinfo # b.tzinfo THEN Raised("TypeError")
    ELSE Returned(a.days < b.days)

\* datetime.now(UTC)
now_utc(days) == datetime(days, "UTC")

RefreshTokenError(message) == [kind |-> "RefreshTokenError", value |-> message]

\* select(UserSession).where(UserSession.token == hashed_token)
session_with(rows, hashed_token) ==
    {i \in 1..Len(rows) : rows[i].token = hashed_token}

\* the rows without row i
drop_row(rows, i) ==
    [j \in 1..(Len(rows) - 1) |-> IF j < i THEN rows[j] ELSE rows[j + 1]]

\* refresh_token_service.py lines 81-121: the rows afterwards and what the
\* call returned or raised
validate_refresh_token(rows, token, days) ==
    LET hashed_token == hash_refresh_token(token)
        found == session_with(rows, hashed_token)
    IN  IF found = {}
        THEN [rows |-> rows, result |-> RefreshTokenError("Invalid refresh token")]
        ELSE LET i == CHOOSE j \in found : TRUE
                 is_expired == datetime_lt(rows[i].expires_at, now_utc(days))
             IN  IF is_expired.kind # "ok"
                 THEN [rows |-> rows, result |-> is_expired]
                 ELSE IF is_expired.value
                 THEN [rows |-> drop_row(rows, i),
                       result |-> RefreshTokenError("Refresh token has expired")]
                 ELSE IF rows[i].token # hashed_token
                 THEN [rows |-> rows,
                       result |-> RefreshTokenError("Invalid refresh token")]
                 ELSE [rows |-> rows, result |-> Returned(rows[i].user_id)]

\* refresh_token_service.py lines 123-140
RECURSIVE delete_refresh_token(_, _)
delete_refresh_token(rows, token) ==
    IF rows = <<>> THEN <<>>
    ELSE IF Head(rows).token = hash_refresh_token(token)
    THEN delete_refresh_token(Tail(rows), token)
    ELSE <<Head(rows)>> \o delete_refresh_token(Tail(rows), token)

\* jwt_service.generate_access_token(user_id): the claims of the token
generate_access_token(user_id) == [sub |-> user_id, type |-> "access"]

\* auth.py lines 30-132: the rows afterwards and the response; the cookie
\* is a token or PyNone
refresh_access_token(rows, refresh_token, days) ==
    IF refresh_token = PyNone
    THEN [rows |-> rows, response |-> HTTPException(401, "missing_refresh_token")]
    ELSE LET out == validate_refresh_token(rows, refresh_token.chars, days)
         IN  IF out.result.kind = "ok"
             THEN [rows |-> out.rows,
                   response |-> Ok200([access_token |->
                                   generate_access_token(out.result.value)])]
             ELSE IF out.result.kind = "RefreshTokenError"
             THEN [rows |-> out.rows,
                   response |-> HTTPException(401,
                       IF out.result.value = "Refresh token has expired"
                       THEN "refresh_token_expired"
                       ELSE "invalid_refresh_token")]
             \* any other exception is not caught: 500 Internal Server Error
             ELSE [rows |-> out.rows,
                   response |-> HTTPException(500, out.result.kind)]

\* the rows the user_sessions table may hold for a token: models/database.py
\* line 54 declares expires_at as DateTime(timezone=False)
SessionRows ==
    {[token |-> tok.token, user_id |-> tok.user_id,
      expires_at |-> datetime(e, z)] :
        tok \in {[token |-> hash_refresh_token("t1"), user_id |-> "u1"],
                 [token |-> hash_refresh_token("t2"), user_id |-> "u2"],
                 [token |-> plain_token("t1"), user_id |-> "u1"]},
        e \in 1..MaxExpiry, z \in {"naive", "UTC"}}

\* tables of rows with distinct tokens (the column is unique)
SessionTables ==
    {t \in SeqsUpTo(SessionRows, MaxSessions) :
        \A i, j \in 1..Len(t) : i < j => t[i].token # t[j].token}

Cookies == {PyNone} \cup {PyStr(t) : t \in RefreshTokens}

\* the tokens of the table that have expired
ExpiredTokens(rows, days) ==
    {t \in RefreshTokens :
        \E i \in 1..Len(rows) : /\ rows[i].token = hash_refresh_token(t)
                                /\ rows[i].expires_at.days < days}

InitRefresh ==
    /\ AuthRestIdle
    /\ sessions \in SessionTables
    /\ auth_now = 0
    /\ revoked = {}
    /\ rtCall = NoCall

AuthTick ==
    /\ auth_now < MaxAuthNow
    /\ auth_now' = auth_now + 1
    /\ rtCall' = NoCall
    /\ UNCHANGED <<sessions, revoked>>
    /\ UNCHANGED authRest

\* POST /api/auth/refresh
RefreshCall ==
    /\ \E refresh_token \in Cookies :
         LET out == refresh_access_token(sessions, refresh_token, auth_now)
         IN  /\ sessions' = out.rows
             /\ rtCall' = [kind |-> "refresh", refresh_token |-> refresh_token,
                           response |-> out.response]
             /\ revoked' =
                    IF /\ refresh_token # PyNone
                       /\ refresh_token.chars \in ExpiredTokens(sessions, auth_now)
                    THEN revoked \cup {refresh_token.chars}
                    ELSE revoked
    /\ UNCHANGED auth_now
    /\ UNCHANGED authRest

\* auth.py lines 135-235: POST /api/auth/logout; an exception of the
\* deletion is logged and the logout succeeds
LogoutCall ==
    /\ \E user_id \in Users, refresh_token \in Cookies, deleted \in BOOLEAN :
         LET completes == refresh_token # PyNone /\ deleted
         IN  /\ sessions' = IF completes
                            THEN delete_refresh_token(sessions, refresh_token.chars)
                            ELSE sessions
             /\ revoked' = IF completes THEN revoked \cup {refresh_token.chars}
                           ELSE revoked
             /\ rtCall' = [kind |-> "logout", refresh_token |-> refresh_token,
                           response |-> Ok200([success |-> TRUE])]
    /\ UNCHANGED auth_now
    /\ UNCHANGED authRest

NextRefresh == AuthTick \/ RefreshCall \/ LogoutCall

SpecRefresh == InitRefresh /\ [][NextRefresh]_vars

\* C26: a refresh request is answered with an access token of user u only
\* if a row storing the hash of its token exists, belongs to u and has
\* expires_at not before now; a request with a token that was logged out, or
\* that was presented after its expiry, is answered 401 (RefreshTokenError)
\* with no access token.
C26_RefreshTokenLifecycle ==
    (rtCall # NoCall /\ rtCall.kind = "refresh") =>
        /\ rtCall.response.status = 200 =>
              \E i \in 1..Len(sessions) :
                  /\ rtCall.refresh_token # PyNone
                  /\ sessions[i].token = hash_refresh_token(rtCall.refresh_token.chars)
                  /\ sessions[i].user_id = rtCall.response.body.access_token.sub
                  /\ sessions[i].expires_at.days >= auth_now
        /\ (rtCall.refresh_token # PyNone /\ rtCall.refresh_token.chars \in revoked)
              => rtCall.response.status = 401

\* ---------------------------------------------------------------------
\* Service authentication and GET /api/user-api-keys/current
\* (api/dependencies.py, api/routers/api_keys.py)
\* ---------------------------------------------------------------------

\* config.py line 16: SERVICE_AUTH_TOKEN: str = "" unless the environment
\* sets it
ServiceTokens == {PyStr(""), PyStr("secret")}

\* a header value, or the bearer token of HTTPBearer: absent, or a string
HeaderValues == {PyNone, PyStr(""), PyStr("secret"), PyStr("wrong")}

\* HTTPBearer(auto_error=False) yields None for a missing or empty token
BearerTokens ==
    {PyNone, PyStr("secret"), PyStr("jwt-u1"), PyStr("jwt-u2-expired"),
     PyStr("sess-u2")}

\* jwt_service.py lines 65-102, on the tokens of BearerTokens
validate_access_token(token) ==
    IF token = "jwt-u1" THEN Returned("u1")
    ELSE IF token = "jwt-u2-expired" THEN Raised("TokenExpiredError")
    ELSE Raised("InvalidTokenError")

\* auth_service.py lines 76-116, on the tokens of BearerTokens
validate_session(token) ==
    IF token = "sess-u2" THEN Returned("u2") ELSE ReturnedNone

\* an Authorization header: the text before the first space and after it
Authorizations ==
    {[scheme |-> s, param |-> p] :
        s \in {"Bearer", "Basic"}, p \in {"", "secret", "wrong"}}

\* dependencies.py lines 121-171
get_service_auth(SERVICE_AUTH_TOKEN, authorization, x_user_id) ==
    IF authorization.scheme # "Bearer"
    THEN HTTPException(401, "Invalid authorization header format")
    ELSE IF SERVICE_AUTH_TOKEN.chars = ""
    THEN HTTPException(401, "Service authentication not configured")
    ELSE IF authorization.param # SERVICE_AUTH_TOKEN.chars
    THEN HTTPException(401, "Invalid service authentication token")
    ELSE IF x_user_id.chars = ""
    THEN HTTPException(400, "Missing X-User-ID header")
    ELSE Ok200(x_user_id.chars)

\* dependencies.py lines 174-243
get_current_user_or_service(SERVICE_AUTH_TOKEN, credentials, x_user_id) ==
    IF x_user_id # PyNone
    THEN IF credentials = PyNone
         THEN HTTPException(401, "Missing authorization header for service authentication")
         ELSE IF SERVICE_AUTH_TOKEN.chars = ""
         THEN HTTPException(401, "Service authentication not configured")
         ELSE IF credentials # SERVICE_AUTH_TOKEN
         THEN HTTPException(401, "Invalid service authentication token")
         ELSE Ok200(x_user_id.chars)
    ELSE IF credentials = PyNone
    THEN HTTPException(401, "Missing or invalid authentication credentials")
    ELSE LET user_id == validate_session(credentials.chars)
         IN  IF user_id.kind # "ok"
             THEN HTTPException(401, "Invalid or expired session token")
             ELSE Ok200(user_id.value)

\* encryption_service.py lines 55-80: Fernet decryption of a stored value
decrypt(ciphertext) ==
    IF ciphertext.intact THEN Returned(ciphertext.plaintext)
    ELSE Raised("ValueError")

\* api/schemas/api_key.py lines 131-146
mask_api_key(api_key) ==
    IF Len(api_key) < 10 THEN <<"*", "*", "*", "*">>
    ELSE SubSeq(api_key, 1, 4) \o <<".", ".", ".">>
             \o SubSeq(api_key, Len(api_key) - 2, Len(api_key))

ApiKeyStatusResponse(configured, masked_key, plaintext_key) ==
    Ok200([configured |-> configured, masked_key |-> masked_key,
           plaintext_key |-> plaintext_key])

\* api_keys.py lines 47-161
get_current_api_key(SERVICE_AUTH_TOKEN, rows, x_user_id, x_service_auth, credentials) ==
    LET is_service_request == x_user_id # PyNone /\ x_service_auth # PyNone
        jwt == IF credentials = PyNone THEN Raised("missing")
               ELSE validate_access_token(credentials.chars)
        rejected ==
            IF is_service_request
            THEN x_service_auth # SERVICE_AUTH_TOKEN
            ELSE jwt.kind # "ok"
        target_user_id == IF is_service_request THEN x_user_id.chars
                          ELSE jwt.value
        \* service.get_api_key_record (api_key_service.py lines 111-133)
        record == {rows[i] : i \in {j \in 1..Len(rows) :
                                        rows[j].user_id = target_user_id}}
    IN  IF rejected
        THEN IF is_service_request
             THEN HTTPException(401, "Invalid service authentication token")
             ELSE IF credentials = PyNone
             THEN HTTPException(401, "Missing authentication credentials")
             ELSE IF jwt.kind = "TokenExpiredError"
             THEN HTTPException(401, "token_expired")
             ELSE HTTPException(401, "invalid_token")
        ELSE IF record = {}
        THEN ApiKeyStatusResponse(FALSE, PyNone, PyNone)
        ELSE LET plaintext_key ==
                     decrypt((CHOOSE r \in record : TRUE).encrypted_key)
             IN  IF plaintext_key.kind # "ok"
                 THEN HTTPException(500, "Failed to retrieve API key. Contact support.")
                 ELSE IF is_service_request
                 THEN ApiKeyStatusResponse(TRUE, PyNone,
                                           PyStr(plaintext_key.value))
                 ELSE ApiKeyStatusResponse(TRUE,
                          PyStr(mask_api_key(plaintext_key.value)), PyNone)

\* the keys users store
ApiKeys ==
    {<<"A", "I", "z", "a", "S", "y", "B", "0", "1", "2", "U", "e", "o">>,
     <<"s", "h", "o", "r", "t">>}

\* the rows of user_api_keys: at most one row for a user
ApiKeyTables ==
    {t \in SeqsUpTo({[user_id |-> u, encrypted_key |-> c] :
                        u \in Users,
                        c \in {[intact |-> TRUE, plaintext |-> k] : k \in ApiKeys}
                              \cup {[intact |-> FALSE, plaintext |-> <<>>]}},
                    2) :
        \A i, j \in 1..Len(t) : i < j => t[i].user_id # t[j].user_id}

InitKeys ==
    /\ KeyRestIdle
    /\ service_auth_token \in ServiceTokens
    /\ user_api_keys \in ApiKeyTables
    /\ akCall = NoCall

\* GET /api/user-api-keys/current
GetCurrentApiKey ==
    /\ \E x_user_id \in {PyNone, PyStr("u1"), PyStr("u2")},
          x_service_auth \in HeaderValues, credentials \in BearerTokens :
         akCall' = [kind |-> "get_current_api_key", x_user_id |-> x_user_id,
                    x_service_auth |-> x_service_auth,
                    credentials |-> credentials,
                    response |-> get_current_api_key(service_auth_token,
                                     user_api_keys, x_user_id, x_service_auth,
                                     credentials)]
    /\ UNCHANGED <<service_auth_token, user_api_keys>>
    /\ UNCHANGED keyRest

\* a request to an endpoint that depends on get_service_auth
ServiceAuthCall ==
    /\ \E authorization \in Authorizations,
          x_user_id \in {PyStr(""), PyStr("u1")} :
         akCall' = [kind |-> "get_service_auth", x_user_id |-> x_user_id,
                    authorization |-> authorization,
                    response |-> get_service_auth(service_auth_token,
                                     authorization, x_user_id)]
    /\ UNCHANGED <<service_auth_token, user_api_keys>>
    /\ UNCHANGED keyRest

\* a request to an endpoint that depends on get_current_user_or_service
UserOrServiceCall ==
    /\ \E credentials \in BearerTokens,
          x_user_id \in {PyNone, PyStr("u1")} :
         akCall' = [kind |-> "get_current_user_or_service",
                    x_user_id |-> x_user_id, credentials |-> credentials,
                    response |-> get_current_user_or_service(service_auth_token,
                                     credentials, x_user_id)]
    /\ UNCHANGED <<service_auth_token, user_api_keys>>
    /\ UNCHANGED keyRest

NextKeys == GetCurrentApiKey \/ ServiceAuthCall \/ UserOrServiceCall

SpecKeys == InitKeys /\ [][NextKeys]_vars

\* the request was authenticated as a service acting for the user named in
\* X-User-ID
akServiceAuthenticated ==
    /\ akCall.response.status = 200
    /\ akCall.x_user_id # PyNone
    /\ \/ akCall.kind = "get_service_auth"
       \/ akCall.kind = "get_current_user_or_service"
       \/ akCall.kind = "get_current_api_key" /\ akCall.x_service_auth # PyNone

\* C30: GET /api/user-api-keys/current returns plaintext_key only to a
\* request with X-User-ID and an X-Service-Auth equal to the configured
\* service token; a request of a JWT-authenticated user receives no
\* plaintext_key; an X-Service-Auth that does not match is answered 401; and
\* on no path is a request authenticated as a service while
\* SERVICE_AUTH_TOKEN is empty.
C30_PlaintextForServiceOnly ==
    akCall # NoCall =>
        /\ akCall.kind = "get_current_api_key" =>
              LET service == akCall.x_user_id # PyNone /\ akCall.x_service_auth # PyNone
              IN  /\ (akCall.response.status = 200
                      /\ akCall.response.body.plaintext_key # PyNone)
                        => service /\ akCall.x_service_auth = service_auth_token
                  /\ (akCall.response.status = 200 /\ ~service)
                        => akCall.response.body.plaintext_key = PyNone
                  /\ (service /\ akCall.x_service_auth # service_auth_token)
                        => akCall.response.status = 401
        /\ service_auth_token.chars = "" => ~akServiceAuthenticated

====
